---- MODULE Spec2Model ----
(***************************************************************************)
(* State-machine model of the rad-ecs EntityManager (entity-manager.ts),   *)
(* its Entity snapshots (entity.ts) and its value index (hashtable.ts).    *)
(* Every public operation is one action; the notifications a mutation      *)
(* publishes are recorded, in delivery order, in the variable `delivered`. *)
(***************************************************************************)
EXTENDS Integers, Sequences, FiniteSets, TLC

\* ------------------------------------------------------------------ bounds
\* createEntity is enabled while currId < MaxId
MaxId == 2
\* Position components lie on the diagonal (1,1) .. (MaxCoord,MaxCoord)
MaxCoord == 2
\* longest component list handed to createEntity / createNamedEntity
MaxComps == 2
\* longest type list handed to matchingIds
MaxQueryTypes == 2

\* --------------------------------------------------------- component types
\* dummy-components.model: Position implements hash(), Physical does not
Types == {"Position", "Physical"}
HashableTypes == {"Position"}
Names == {"hero"}

\* new Position({x, y})
Position(coord) == [type |-> "Position", x |-> coord.x, y |-> coord.y]

\* new Physical(size)
Physical(size) == [type |-> "Physical", size |-> size]

\* Size.FILL
FILL == [enum |-> 0]

PositionValues == {Position([x |-> n, y |-> n]) : n \in 1..MaxCoord}
PhysicalValues == {Physical(FILL)}
Components == PositionValues \cup PhysicalValues

\* the JavaScript value `undefined`
Undefined == [undefined |-> TRUE]

\* Position.hash(): `${this.x},${this.y}`
Hash(component) == ToString(component.x) \o "," \o ToString(component.y)

\* Object.getPrototypeOf(component).constructor
TypeOf(component) == component.type

\* sequences over S of length 0..n
RECURSIVE SeqsUpTo(_, _)
SeqsUpTo(S, n) ==
  IF n = 0 THEN {<<>>}
  ELSE LET shorter == SeqsUpTo(S, n - 1)
       IN shorter \cup {Append(s, x) : s \in {t \in shorter : Len(t) = n - 1}, x \in S}

\* ------------------------------------------------------------------ Entity
\* mutant: every component gets an entry of its own
MapSetAppend(components_, component) == Append(components_, component)

\* Map.set(type, component): replaces in place, else appends (insertion order)
MapSet(components_, component) ==
  IF \E i \in 1..Len(components_) : TypeOf(components_[i]) = TypeOf(component)
  THEN [i \in 1..Len(components_) |->
          IF TypeOf(components_[i]) = TypeOf(component) THEN component ELSE components_[i]]
  ELSE Append(components_, component)

RECURSIVE MapSetAll(_, _)
MapSetAll(components_, components) ==
  IF components = <<>> THEN components_
  ELSE MapSetAll(MapSet(components_, Head(components)), Tail(components))

\* new Entity(id, components)
Entity(id, components) == [id |-> id, components_ |-> MapSetAll(<<>>, components)]

\* Entity.has(type)
EntityHas(e, type) == \E i \in 1..Len(e.components_) : TypeOf(e.components_[i]) = type

\* Entity.component(type), called only where has(type) holds
EntityComponent(e, type) ==
  LET i == CHOOSE j \in 1..Len(e.components_) : TypeOf(e.components_[j]) = type
  IN e.components_[i]

\* mutant: a requested type the entity lacks is skipped
EntityComponentsPresentOnly(e, types) ==
  LET present == SelectSeq(types, LAMBDA t : EntityHas(e, t))
  IN [threw |-> FALSE,
      instances |-> [t \in 1..Len(present) |-> EntityComponent(e, present[t])]]

\* Entity.components(...types): types.map with a throw at the first type the
\* Map has no component for
EntityComponents(e, types) ==
  IF \E t \in 1..Len(types) : ~EntityHas(e, types[t])
  THEN [threw |-> TRUE, instances |-> <<>>]
  ELSE [threw |-> FALSE,
        instances |-> [t \in 1..Len(types) |-> EntityComponent(e, types[t])]]

\* Entity.has(types) for an array of types: false at the first type the Map lacks
RECURSIVE EntityHasAll(_, _)
EntityHasAll(e, types) ==
  IF types = <<>> THEN TRUE
  ELSE IF ~EntityHas(e, Head(types)) THEN FALSE
  ELSE EntityHasAll(e, Tail(types))

\* Entity.allComponents(): the components in Map insertion order
AllComponents(e) == e.components_

\* --------------------------------------------------------------- HashTable
\* a HashTable is a function from digests to sets of ids
EmptyHashTable == [h \in {} |-> {}]

\* mutant: the bucket of the digest is replaced by the new value
HashTableAddReplacing(values, key, value) ==
  LET h == Hash(key)
  IN [d \in DOMAIN values \cup {h} |-> IF d = h THEN {value} ELSE values[d]]

\* HashTable.add(key, value)
HashTableAdd(values, key, value) ==
  LET h == Hash(key)
      bucket == IF h \in DOMAIN values THEN values[h] ELSE {}
  IN [d \in DOMAIN values \cup {h} |-> IF d = h THEN bucket \cup {value} ELSE values[d]]

\* mutant: an emptied bucket is kept
HashTableRemoveKeepingBucket(values, key, value) ==
  LET h == Hash(key)
  IN IF h \notin DOMAIN values THEN values
     ELSE [values EXCEPT ![h] = @ \ {value}]

\* HashTable.remove(key, value): an emptied bucket is deleted
HashTableRemove(values, key, value) ==
  LET h == Hash(key)
  IN IF h \notin DOMAIN values THEN values
     ELSE IF values[h] \ {value} = {}
          THEN [d \in DOMAIN values \ {h} |-> values[d]]
          ELSE [values EXCEPT ![h] = @ \ {value}]

\* HashTable.get(key)
HashTableGet(values, key) ==
  IF Hash(key) \notin DOMAIN values THEN {} ELSE values[Hash(key)]

\* HashTable.has(key)
HashTableHas(values, key) == Hash(key) \in DOMAIN values

\* HashTable.count(key)
HashTableCount(values, key) ==
  IF ~HashTableHas(values, key) THEN 0 ELSE Cardinality(values[Hash(key)])

\* HashTable.hasValue(key, value)
HashTableHasValue(values, key, value) ==
  Hash(key) \in DOMAIN values /\ value \in values[Hash(key)]

\* mutant: the ids of all buckets are counted instead of the buckets
HashTableCountIds(values) == Cardinality(UNION {values[h] : h \in DOMAIN values})

\* HashTable.countKeys()
HashTableCountKeys(values) == Cardinality(DOMAIN values)

\* utils.ts setIntersect
SetIntersect(left, right) == {n \in left : n \in right}

\* ----------------------------------------------------------- EntityManager
VARIABLES
  currId,                  \* next id createEntity hands out
  entities,                \* id -> current Entity snapshot
  entityNameMapping,       \* name -> id
  componentEntities,       \* type -> set of ids (presence index)
  componentValueEntities,  \* type -> HashTable (value index)
  entityRegistrations,     \* ids that have an entity Subject (with a subscriber)
  componentRegistrations,  \* types that have a component Subject (with a subscriber)
  delivered,               \* notifications delivered by the latest operation, in order
  lastOp,                  \* the latest public operation and its outcome
  issued,                  \* history: ids returned by createEntity so far,
                           \* whether clear / fromData has run in this lifetime,
                           \* and the ids the latest successful import brought
  scenario,                \* history: progress of the latest subscriber through
                           \* create, subscribe, setComponent, removeComponent,
                           \* remove on one entity, and what it received
  held,                    \* an Entity object a caller kept from createEntity or
                           \* get: as it was returned and as it is now
  watched,                 \* the <<id, type>> pairs of the subscribers of
                           \* observeEntityComponent$(id, type)
  table,                   \* a HashTable on its own: its `values` field
  tracked                  \* history: the <<digest, value>> pairs added to the
                           \* table and not removed since

vars == <<currId, entities, entityNameMapping, componentEntities,
          componentValueEntities, entityRegistrations, componentRegistrations,
          delivered, lastOp, issued, scenario, held, watched, table, tracked>>

EmptyMap == [k \in {} |-> {}]

\* obj[key] of a JavaScript object / Map.get(key)
Lookup(map, key) == IF key \in DOMAIN map THEN map[key] ELSE Undefined

\* map with key set to value
MapPut(map, key, value) ==
  [k \in DOMAIN map \cup {key} |-> IF k = key THEN value ELSE map[k]]

\* map without key
MapDelete(map, key) == [k \in DOMAIN map \ {key} |-> map[k]]

\* the part of the manager a mutation works on
Store == [entities |-> entities,
          componentEntities |-> componentEntities,
          componentValueEntities |-> componentValueEntities,
          entityRegistrations |-> entityRegistrations,
          componentRegistrations |-> componentRegistrations,
          delivered |-> <<>>]

\* what a subscriber can read from the manager while its callback runs
View(st) == [entities |-> st.entities,
             componentEntities |-> st.componentEntities,
             componentValueEntities |-> st.componentValueEntities]

\* Subject.next(...) on the entity channel of id
EntityEvent(st, id, e) ==
  [channel |-> "entity", id |-> id, e |-> e, seen |-> View(st)]

\* Subject.next({id, e, c}) on the component channel of type
ComponentEvent(st, type, id, e, c) ==
  [channel |-> "component", type |-> type, id |-> id, e |-> e, c |-> c,
   seen |-> View(st)]

\* exists(id)
Exists(ents, id) == id \in DOMAIN ents

\* mutant: the indices are updated but nothing is published during the call
HousekeepAddComponentSilent(st, id, component) ==
  LET type == TypeOf(component)
      withSet == IF type \in DOMAIN st.componentEntities
                 THEN st.componentEntities
                 ELSE MapPut(st.componentEntities, type, {})
      presence == [withSet EXCEPT ![type] = @ \cup {id}]
      values == IF type \in DOMAIN st.componentValueEntities
                THEN [st.componentValueEntities EXCEPT
                        ![type] = HashTableAdd(@, component, id)]
                ELSE st.componentValueEntities
  IN [st EXCEPT !.componentEntities = presence,
                !.componentValueEntities = values]

\* housekeepAddComponent(id, component)
HousekeepAddComponent(st, id, component) ==
  LET type == TypeOf(component)
      withSet == IF type \in DOMAIN st.componentEntities
                 THEN st.componentEntities
                 ELSE MapPut(st.componentEntities, type, {})
      presence == [withSet EXCEPT ![type] = @ \cup {id}]
      values == IF type \in DOMAIN st.componentValueEntities
                THEN [st.componentValueEntities EXCEPT
                        ![type] = HashTableAdd(@, component, id)]
                ELSE st.componentValueEntities
      st2 == [st EXCEPT !.componentEntities = presence,
                        !.componentValueEntities = values]
      toEntity == IF id \in st.entityRegistrations
                  THEN <<EntityEvent(st2, id, Lookup(st2.entities, id))>>
                  ELSE <<>>
      toType == IF type \in st.componentRegistrations
                THEN <<ComponentEvent(st2, type, id, Lookup(st2.entities, id), component)>>
                ELSE <<>>
  IN [st2 EXCEPT !.delivered = @ \o toEntity \o toType]

\* housekeepRemoveComponent(id, component, notify)
HousekeepRemoveComponent(st, id, component, notify) ==
  LET type == TypeOf(component)
      presence == IF type \in DOMAIN st.componentEntities
                  THEN [st.componentEntities EXCEPT ![type] = @ \ {id}]
                  ELSE st.componentEntities
      values == IF type \in DOMAIN st.componentValueEntities
                THEN [st.componentValueEntities EXCEPT
                        ![type] = HashTableRemove(@, component, id)]
                ELSE st.componentValueEntities
      st2 == [st EXCEPT !.componentEntities = presence,
                        !.componentValueEntities = values]
      entityValue == Lookup(st2.entities, id)
      toEntity == IF notify /\ id \in st.entityRegistrations
                  THEN <<EntityEvent(st2, id, entityValue)>>
                  ELSE <<>>
      toType == IF notify /\ type \in st.componentRegistrations
                THEN <<ComponentEvent(st2, type, id, entityValue, Undefined)>>
                ELSE <<>>
  IN [st2 EXCEPT !.delivered = @ \o toEntity \o toType]

\* mutant: the filter keeps the components of the listed types
ExcludeComponentsInverted(st, id, types) ==
  SelectSeq(AllComponents(st.entities[id]), LAMBDA c : TypeOf(c) \in types)

\* excludeComponents(id, types)
ExcludeComponents(st, id, types) ==
  SelectSeq(AllComponents(st.entities[id]), LAMBDA c : TypeOf(c) \notin types)

\* the loop of _createEntity: housekeepAddComponent for each listed component
RECURSIVE HousekeepAddEach(_, _, _)
HousekeepAddEach(st, id, components) ==
  IF components = <<>> THEN st
  ELSE HousekeepAddEach(HousekeepAddComponent(st, id, Head(components)), id,
                        Tail(components))

\* _createEntity(id, ...components)
CreateEntityWithId(st, id, components) ==
  HousekeepAddEach([st EXCEPT !.entities = MapPut(@, id, Entity(id, components))],
                   id, components)

\* the loop of remove: housekeepRemoveComponent(id, component, true) for each
RECURSIVE HousekeepRemoveEach(_, _, _)
HousekeepRemoveEach(st, id, components) ==
  IF components = <<>> THEN st
  ELSE HousekeepRemoveEach(HousekeepRemoveComponent(st, id, Head(components), TRUE),
                           id, Tail(components))

\* remove(id) of an existing entity
RemoveEntity(st, id) ==
  LET components == AllComponents(st.entities[id])
      scrubbed == [t \in DOMAIN st.componentEntities |-> st.componentEntities[t] \ {id}]
  IN HousekeepRemoveEach([st EXCEPT !.entities = MapDelete(@, id),
                                    !.componentEntities = scrubbed],
                         id, components)

\* the loop of _createEntity when the subscriber of `type` calls
\* remove(change.id) from its callback: the remove runs nested in the
\* Subject.next of housekeepAddComponent, then the loop goes on
RECURSIVE HousekeepAddEachReentrant(_, _, _, _)
HousekeepAddEachReentrant(st, id, components, type) ==
  IF components = <<>> THEN st
  ELSE LET added == HousekeepAddComponent(st, id, Head(components))
           called == TypeOf(Head(components)) = type
                       /\ type \in st.componentRegistrations
           reacted == IF called /\ Exists(added.entities, id)
                      THEN RemoveEntity(added, id)
                      ELSE added
       IN HousekeepAddEachReentrant(reacted, id, Tail(components), type)

\* mutant: the notify flag is ignored, a removal always publishes
RemoveComponentFromNotifying(st, entityId, type, notify) ==
  IF EntityHas(st.entities[entityId], type)
  THEN LET toRemove == EntityComponent(st.entities[entityId], type)
           rebuilt == Entity(entityId, ExcludeComponents(st, entityId, {type}))
       IN HousekeepRemoveComponent([st EXCEPT !.entities[entityId] = rebuilt],
                                   entityId, toRemove, TRUE)
  ELSE st

\* removeComponent(entityId, type, notify) of an existing entity
RemoveComponentFrom(st, entityId, type, notify) ==
  IF EntityHas(st.entities[entityId], type)
  THEN LET toRemove == EntityComponent(st.entities[entityId], type)
           rebuilt == Entity(entityId, ExcludeComponents(st, entityId, {type}))
       IN HousekeepRemoveComponent([st EXCEPT !.entities[entityId] = rebuilt],
                                   entityId, toRemove, notify)
  ELSE st

\* setComponent(entityId, component) of an existing entity
SetComponentOn(st, entityId, component) ==
  LET componentType == TypeOf(component)
      removed == IF EntityHas(st.entities[entityId], componentType)
                 THEN RemoveComponentFrom(st, entityId, componentType, FALSE)
                 ELSE st
      otherComponents == ExcludeComponents(removed, entityId, {componentType})
      replaced == [removed EXCEPT !.entities[entityId] =
                     Entity(entityId, Append(otherComponents, component))]
  IN HousekeepAddComponent(replaced, entityId, component)

\* ------------------------------------------------------------ the queries
\* matchingIds(...types): types is a sequence of component types
RECURSIVE Reduce(_, _)
Reduce(accum, rest) ==
  IF rest = <<>> THEN accum
  ELSE Reduce(SetIntersect(accum, Head(rest)), Tail(rest))

\* mutant: the `working.length === types.length` test is dropped
MatchingIdsAnyFound(presence, types) ==
  LET found == SelectSeq(types, LAMBDA type : type \in DOMAIN presence)
      working == [i \in 1..Len(found) |-> presence[found[i]]]
  IN IF Len(working) # 0
     THEN Reduce(Head(working), Tail(working))
     ELSE {}

MatchingIds(presence, types) ==
  LET found == SelectSeq(types, LAMBDA type : type \in DOMAIN presence)
      working == [i \in 1..Len(found) |-> presence[found[i]]]
  IN IF Len(working) # 0 /\ Len(working) = Len(types)
     THEN Reduce(Head(working), Tail(working))
     ELSE {}

\* matchingIndex(component) for an indexed type: the entities the ids map to
MatchingIndex(ents, valueEntities, component) ==
  {Lookup(ents, id) : id \in HashTableGet(valueEntities[TypeOf(component)], component)}

\* the loop of indexBy over the ids of the presence set
RECURSIVE IndexEach(_, _, _, _)
IndexEach(valueIndex, ents, componentType, ids) ==
  IF ids = {} THEN valueIndex
  ELSE LET id == CHOOSE i \in ids : TRUE
           component == EntityComponent(ents[id], componentType)
       IN IndexEach(HashTableAdd(valueIndex, component, id), ents, componentType,
                    ids \ {id})

\* ---------------------------------------------------------------- actions
\* the ids the bounded model can issue
Ids == 0..(MaxId - 1)

\* an `EntityId | string` argument: a number or a name
ById(id) == [kind |-> "number", v |-> id]
ByName(name) == [kind |-> "string", v |-> name]
IdOrName == {ById(id) : id \in Ids} \cup {ByName(name) : name \in Names}

\* typeof id === 'string' ? this.entityNameMapping[id] : id
\* (NoId stands for the undefined an unknown name resolves to)
NoId == -1

\* mutant: a name whose entity is gone resolves to an entity that is live
ResolveToLive(id) ==
  IF id.kind = "string"
  THEN IF id.v \in DOMAIN entityNameMapping
       THEN IF Exists(entities, entityNameMapping[id.v]) \/ DOMAIN entities = {}
            THEN entityNameMapping[id.v]
            ELSE CHOOSE live \in DOMAIN entities : TRUE
       ELSE NoId
  ELSE id.v

Resolve(id) ==
  IF id.kind = "string"
  THEN IF id.v \in DOMAIN entityNameMapping THEN entityNameMapping[id.v] ELSE NoId
  ELSE id.v

\* mutant: the counter is read but not advanced
AllocIdNoAdvance(cur) == [id |-> cur, next |-> cur]

\* const id = this.currId++
AllocId(cur) == [id |-> cur, next |-> cur + 1]

\* no subscriber is being followed through a scenario
NoScenario == [id |-> -1, stage |-> 0, received |-> <<>>]

\* no Entity object is kept by a caller
NoReference ==
  [held |-> FALSE, id |-> -1, original |-> <<>>, object |-> <<>>, shared |-> FALSE]

\* init(): the fields of a new manager, and of the manager after clear()
InitFields ==
  [currId |-> 0,
   entities |-> EmptyMap,
   entityNameMapping |-> EmptyMap,
   componentEntities |-> EmptyMap,
   componentValueEntities |-> EmptyMap,
   entityRegistrations |-> {},
   componentRegistrations |-> {}]

Init ==
  /\ currId = InitFields.currId
  /\ entities = InitFields.entities
  /\ entityNameMapping = InitFields.entityNameMapping
  /\ componentEntities = InitFields.componentEntities
  /\ componentValueEntities = InitFields.componentValueEntities
  /\ entityRegistrations = InitFields.entityRegistrations
  /\ componentRegistrations = InitFields.componentRegistrations
  /\ delivered = <<>>
  /\ lastOp = [op |-> "new", id |-> -1, arg |-> <<>>, result |-> "ok", value |-> <<>>]
  /\ issued = [ids |-> {}, reset |-> FALSE, imported |-> {}]
  /\ scenario = NoScenario
  /\ held = NoReference
  /\ watched = {}
  /\ table = EmptyHashTable
  /\ tracked = {}

\* a record of one call: result is "ok", "throw", "true", "false", "added" or
\* "replaced"; value is what a query returned, the id or name a call that
\* takes either was addressed to, or what a reset found
OpValue(op, id, arg, result, value) ==
  [op |-> op, id |-> id, arg |-> arg, result |-> result, value |-> value]

Op(op, id, arg, result) == OpValue(op, id, arg, result, <<>>)

\* what the subscriber of the entity channel of id was handed, in order
RECURSIVE EntityPayloads(_, _)
EntityPayloads(events, id) ==
  IF events = <<>> THEN <<>>
  ELSE LET rest == EntityPayloads(Tail(events), id)
       IN IF Head(events).channel = "entity" /\ Head(events).id = id
          THEN <<Head(events).e>> \o rest
          ELSE rest

\* the scenario after the call op that delivered events: it starts when an
\* entity is subscribed to right after its creation, advances through
\* setComponent, removeComponent and remove of that entity, and is dropped by
\* any other change of that entity
ScenarioAfter(sc, previous, op, events) ==
  LET advance == [sc EXCEPT !.stage = @ + 1,
                            !.received = @ \o EntityPayloads(events, sc.id)]
  IN IF op.op \in {"clear", "fromData"} THEN NoScenario
     ELSE IF op.op = "observeEntity" /\ op.result = "ok"
     THEN IF previous.op \in {"createEntity", "createNamedEntity"}
             /\ previous.result = "ok" /\ previous.id = op.id
          THEN [id |-> op.id, stage |-> 1, received |-> <<>>]
          ELSE sc
     ELSE IF sc.stage = 0 \/ op.id # sc.id THEN sc
     ELSE IF op.op = "setComponent" /\ op.result \in {"added", "replaced"}
     THEN IF sc.stage = 1 THEN advance ELSE NoScenario
     ELSE IF op.op = "removeComponent" /\ op.result = "true"
     THEN IF sc.stage = 2 THEN advance ELSE NoScenario
     ELSE IF op.op \in {"remove", "removeNamed"} /\ op.result = "true"
     THEN IF sc.stage = 3 THEN advance ELSE NoScenario
     ELSE sc

\* the history variable follows every call; no caller keeps an Entity object
Track ==
  /\ scenario' = ScenarioAfter(scenario, lastOp, lastOp', delivered')
  /\ UNCHANGED <<held, watched, table, tracked>>

\* mutant: the stored object is written in place
WrittenInPlace(h, entity) == [h EXCEPT !.object = entity]

\* this.entities[id] = new Entity(...): the slot gets a new object, and the
\* object it held, which the caller kept, is as it was
Reassigned(h, entity) == [h EXCEPT !.shared = FALSE]

\* the kept object after the call op: a caller that keeps the Entity returned
\* by createEntity or get holds the object of this.entities[id] (shared); the
\* slot of a shared object is written by setComponent and removeComponent,
\* deleted by remove and dropped with the whole table by clear
HeldAfter(h, keep, op, ents) ==
  IF keep /\ op.op \in {"createEntity", "get"} /\ op.result = "ok"
  THEN [held |-> TRUE, id |-> op.id, original |-> ents[op.id],
        object |-> ents[op.id], shared |-> TRUE]
  ELSE IF ~h.held \/ ~h.shared THEN h
  ELSE IF op.op = "clear" THEN [h EXCEPT !.shared = FALSE]
  ELSE IF op.id # h.id THEN h
  ELSE IF op.op = "setComponent" /\ op.result \in {"added", "replaced"}
  THEN Reassigned(h, ents[h.id])
  ELSE IF op.op = "removeComponent" /\ op.result = "true"
  THEN Reassigned(h, ents[h.id])
  ELSE IF op.op = "remove" /\ op.result = "true"
  THEN [h EXCEPT !.shared = FALSE]
  ELSE h

\* the history variables follow a call whose returned Entity the caller may keep
TrackSnapshot(keep) ==
  /\ scenario' = ScenarioAfter(scenario, lastOp, lastOp', delivered')
  /\ held' = HeldAfter(held, keep, lastOp', entities')
  /\ UNCHANGED <<watched, table, tracked>>

\* the history variables follow a call that may subscribe to the components
\* of one type on one entity
TrackWatched ==
  /\ scenario' = ScenarioAfter(scenario, lastOp, lastOp', delivered')
  /\ watched' = IF lastOp'.op = "observeEntityComponent" /\ lastOp'.result = "ok"
                THEN watched \cup {<<lastOp'.id, lastOp'.arg>>}
                ELSE watched
  /\ UNCHANGED <<held, table, tracked>>

\* the history variables follow a call on the HashTable
TrackTable ==
  /\ scenario' = ScenarioAfter(scenario, lastOp, lastOp', delivered')
  /\ tracked' = IF lastOp'.op = "HashTable.add"
                THEN tracked \cup {<<Hash(lastOp'.arg), lastOp'.id>>}
                ELSE IF lastOp'.op = "HashTable.remove"
                THEN tracked \ {<<Hash(lastOp'.arg), lastOp'.id>>}
                ELSE tracked
  /\ UNCHANGED <<held, watched>>

\* install the result of a mutation
Commit(st) ==
  /\ entities' = st.entities
  /\ componentEntities' = st.componentEntities
  /\ componentValueEntities' = st.componentValueEntities
  /\ delivered' = st.delivered

\* an operation that throws, or has nothing to do: nothing but lastOp changes
NoChange(op) ==
  /\ lastOp' = op
  /\ delivered' = <<>>
  /\ UNCHANGED <<currId, entities, entityNameMapping, componentEntities,
                 componentValueEntities, entityRegistrations,
                 componentRegistrations, issued>>

\* createEntity(...components)
createEntity(components) ==
  /\ currId < MaxId
  /\ LET alloc == AllocId(currId)
     IN /\ currId' = alloc.next
        /\ Commit(CreateEntityWithId(Store, alloc.id, components))
        /\ lastOp' = Op("createEntity", alloc.id, components, "ok")
        /\ issued' = [issued EXCEPT !.ids = @ \cup {alloc.id}]
  /\ UNCHANGED <<entityNameMapping, entityRegistrations, componentRegistrations>>

\* createEntity(...components) while the subscriber of `type` removes every
\* entity it is told about
createEntityReentrant(components, type) ==
  /\ currId < MaxId
  /\ type \in componentRegistrations
  /\ \E i \in 1..Len(components) : TypeOf(components[i]) = type
  /\ LET alloc == AllocId(currId)
         stored == [Store EXCEPT !.entities =
                      MapPut(@, alloc.id, Entity(alloc.id, components))]
     IN /\ currId' = alloc.next
        /\ Commit(HousekeepAddEachReentrant(stored, alloc.id, components, type))
        /\ lastOp' = OpValue("createEntity", alloc.id, components, "ok",
                             [removedBy |-> type])
        /\ issued' = [issued EXCEPT !.ids = @ \cup {alloc.id}]
  /\ UNCHANGED <<entityNameMapping, entityRegistrations, componentRegistrations>>

\* mutant: the entity is created before the name is looked up
createNamedEntityLateCheck(name, components) ==
  /\ currId < MaxId
  /\ LET alloc == AllocId(currId)
     IN /\ currId' = alloc.next
        /\ Commit(CreateEntityWithId(Store, alloc.id, components))
        /\ entityNameMapping' = IF name \in DOMAIN entityNameMapping
                                THEN entityNameMapping
                                ELSE MapPut(entityNameMapping, name, alloc.id)
        /\ lastOp' = IF name \in DOMAIN entityNameMapping
                     THEN OpValue("createNamedEntity", -1, <<>>, "throw", ByName(name))
                     ELSE OpValue("createNamedEntity", alloc.id, components, "ok",
                                  ByName(name))
        /\ issued' = [issued EXCEPT !.ids = @ \cup {alloc.id}]
  /\ UNCHANGED <<entityRegistrations, componentRegistrations>>

\* createNamedEntity(name, ...components)
createNamedEntity(name, components) ==
  IF name \in DOMAIN entityNameMapping
  THEN NoChange(OpValue("createNamedEntity", -1, <<>>, "throw", ByName(name)))
  ELSE /\ currId < MaxId
       /\ LET alloc == AllocId(currId)
          IN /\ currId' = alloc.next
             /\ Commit(CreateEntityWithId(Store, alloc.id, components))
             /\ entityNameMapping' = MapPut(entityNameMapping, name, alloc.id)
             /\ lastOp' = OpValue("createNamedEntity", alloc.id, components, "ok",
                                  ByName(name))
             /\ issued' = [issued EXCEPT !.ids = @ \cup {alloc.id}]
       /\ UNCHANGED <<entityRegistrations, componentRegistrations>>

\* setEntityName(id, name)
setEntityName(id, name) ==
  IF ~Exists(entities, id)
  THEN NoChange(Op("setEntityName", -1, <<>>, "throw"))
  ELSE /\ entityNameMapping' = MapPut(entityNameMapping, name, id)
       /\ lastOp' = Op("setEntityName", id, name, "ok")
       /\ delivered' = <<>>
       /\ UNCHANGED <<currId, entities, componentEntities, componentValueEntities,
                      entityRegistrations, componentRegistrations, issued>>

\* mutant: removing an unknown id reports success
removeReportingTrue(id) ==
  IF ~Exists(entities, id)
  THEN NoChange(OpValue("remove", -1, <<>>, "true", ById(id)))
  ELSE /\ Commit(RemoveEntity(Store, id))
       /\ lastOp' = OpValue("remove", id, <<>>, "true", ById(id))
       /\ UNCHANGED <<currId, entityNameMapping, entityRegistrations,
                      componentRegistrations, issued>>

\* remove(id)
remove(id) ==
  IF ~Exists(entities, id)
  THEN NoChange(OpValue("remove", -1, <<>>, "false", ById(id)))
  ELSE /\ Commit(RemoveEntity(Store, id))
       /\ lastOp' = OpValue("remove", id, <<>>, "true", ById(id))
       /\ UNCHANGED <<currId, entityNameMapping, entityRegistrations,
                      componentRegistrations, issued>>

\* removeNamed(name)
removeNamed(name) ==
  LET id == Resolve(ByName(name))
  IN IF ~Exists(entities, id)
     THEN NoChange(OpValue("removeNamed", -1, <<>>, "false", ByName(name)))
     ELSE /\ Commit(RemoveEntity(Store, id))
          /\ lastOp' = OpValue("removeNamed", id, name, "true", ByName(name))
          /\ UNCHANGED <<currId, entityNameMapping, entityRegistrations,
                         componentRegistrations, issued>>

\* the digests the value index of the type holds, `undefined` when the type
\* has no value index
PreviousDigests(componentType) ==
  IF componentType \in DOMAIN componentValueEntities
  THEN [digests |-> DOMAIN componentValueEntities[componentType]]
  ELSE Undefined

\* mutant: the entries are added to the index the type already has
indexByMerging(componentType) ==
  LET typeEntities == IF componentType \in DOMAIN componentEntities
                      THEN componentEntities[componentType] ELSE {}
      valueIndex == IndexEach(IF componentType \in DOMAIN componentValueEntities
                             THEN componentValueEntities[componentType]
                             ELSE EmptyHashTable, entities, componentType, typeEntities)
  IN IF \E id \in typeEntities : \/ ~Exists(entities, id)
                                  \/ ~EntityHas(entities[id], componentType)
     THEN \* this.entities[id].component(componentType) throws
          NoChange(Op("indexBy", -1, <<>>, "throw"))
     ELSE /\ componentValueEntities' =
               MapPut(componentValueEntities, componentType, valueIndex)
          /\ lastOp' = OpValue("indexBy", -1, componentType, "ok",
                               [uniqueComponentValues |-> HashTableCountKeys(valueIndex),
                                totalComponents |-> Cardinality(typeEntities),
                                previous |-> PreviousDigests(componentType)])
          /\ delivered' = <<>>
          /\ UNCHANGED <<currId, entities, entityNameMapping, componentEntities,
                         entityRegistrations, componentRegistrations, issued>>

\* indexBy(componentType); the record of the call keeps, beside the returned
\* counts, the digests of the index the type had before
indexBy(componentType) ==
  LET typeEntities == IF componentType \in DOMAIN componentEntities
                      THEN componentEntities[componentType] ELSE {}
      valueIndex == IndexEach(EmptyHashTable, entities, componentType, typeEntities)
  IN IF \E id \in typeEntities : \/ ~Exists(entities, id)
                                  \/ ~EntityHas(entities[id], componentType)
     THEN \* this.entities[id].component(componentType) throws
          NoChange(Op("indexBy", -1, <<>>, "throw"))
     ELSE /\ componentValueEntities' =
               MapPut(componentValueEntities, componentType, valueIndex)
          /\ lastOp' = OpValue("indexBy", -1, componentType, "ok",
                               [uniqueComponentValues |-> HashTableCountKeys(valueIndex),
                                totalComponents |-> Cardinality(typeEntities),
                                previous |-> PreviousDigests(componentType)])
          /\ delivered' = <<>>
          /\ UNCHANGED <<currId, entities, entityNameMapping, componentEntities,
                         entityRegistrations, componentRegistrations, issued>>

\* setComponent(id, component)
setComponent(id, component) ==
  LET entityId == Resolve(id)
  IN IF ~Exists(entities, entityId)
     THEN NoChange(OpValue("setComponent", -1, <<>>, "throw", id))
     ELSE /\ Commit(SetComponentOn(Store, entityId, component))
          /\ lastOp' = OpValue("setComponent", entityId, component,
                               IF EntityHas(entities[entityId], TypeOf(component))
                               THEN "replaced" ELSE "added", id)
          /\ UNCHANGED <<currId, entityNameMapping, entityRegistrations,
                         componentRegistrations, issued>>

\* mutant: a removal that finds no component of the type reports success
removeComponentReportingTrue(id, type) ==
  LET entityId == Resolve(id)
  IN IF ~Exists(entities, entityId)
     THEN NoChange(OpValue("removeComponent", -1, <<>>, "throw", id))
     ELSE /\ Commit(RemoveComponentFrom(Store, entityId, type, TRUE))
          /\ lastOp' = OpValue("removeComponent", entityId, type, "true", id)
          /\ UNCHANGED <<currId, entityNameMapping, entityRegistrations,
                         componentRegistrations, issued>>

\* removeComponent(id, type)
removeComponent(id, type) ==
  LET entityId == Resolve(id)
  IN IF ~Exists(entities, entityId)
     THEN NoChange(OpValue("removeComponent", -1, <<>>, "throw", id))
     ELSE IF ~EntityHas(entities[entityId], type)
     THEN NoChange(OpValue("removeComponent", entityId, type, "false", id))
     ELSE /\ Commit(RemoveComponentFrom(Store, entityId, type, TRUE))
          /\ lastOp' = OpValue("removeComponent", entityId, type, "true", id)
          /\ UNCHANGED <<currId, entityNameMapping, entityRegistrations,
                         componentRegistrations, issued>>

\* observeEntity$(id).subscribe(...)
observeEntity(id) ==
  IF ~Exists(entities, id)
  THEN NoChange(Op("observeEntity", -1, <<>>, "throw"))
  ELSE /\ entityRegistrations' = entityRegistrations \cup {id}
       /\ lastOp' = Op("observeEntity", id, <<>>, "ok")
       /\ delivered' = <<>>
       /\ UNCHANGED <<currId, entities, entityNameMapping, componentEntities,
                      componentValueEntities, componentRegistrations, issued>>

\* mutant: the stream of the type is handed on without the filter
EntityComponentStreamUnfiltered(events, id, type) ==
  SelectSeq(events, LAMBDA ev : ev.channel = "component" /\ ev.type = type)

\* observeComponentType$(type).pipe(filter(change => change.id === id)): what
\* the subscriber of observeEntityComponent$(id, type) is handed of events
EntityComponentStream(events, id, type) ==
  SelectSeq(events, LAMBDA ev : ev.channel = "component" /\ ev.type = type
                                  /\ ev.id = id)

\* mutant: the subscription is opened without checkEntity
observeEntityComponentUnchecked(id, type) ==
  /\ componentRegistrations' = componentRegistrations \cup {type}
  /\ lastOp' = OpValue("observeEntityComponent", id, type, "ok", ById(id))
  /\ delivered' = <<>>
  /\ UNCHANGED <<currId, entities, entityNameMapping, componentEntities,
                 componentValueEntities, entityRegistrations, issued>>

\* observeEntityComponent$(id, type).subscribe(...): checkEntity, then the
\* Subject of the type is opened by observeComponentType$
observeEntityComponent(id, type) ==
  IF ~Exists(entities, id)
  THEN NoChange(OpValue("observeEntityComponent", -1, <<>>, "throw", ById(id)))
  ELSE /\ componentRegistrations' = componentRegistrations \cup {type}
       /\ lastOp' = OpValue("observeEntityComponent", id, type, "ok", ById(id))
       /\ delivered' = <<>>
       /\ UNCHANGED <<currId, entities, entityNameMapping, componentEntities,
                      componentValueEntities, entityRegistrations, issued>>

\* observeComponentType$(type).subscribe(...)
observeComponentType(type) ==
  /\ componentRegistrations' = componentRegistrations \cup {type}
  /\ lastOp' = Op("observeComponentType", -1, type, "ok")
  /\ delivered' = <<>>
  /\ UNCHANGED <<currId, entities, entityNameMapping, componentEntities,
                 componentValueEntities, entityRegistrations, issued>>

\* what the manager holds when a clear or an import begins
Held ==
  [entities |-> DOMAIN entities,
   names |-> DOMAIN entityNameMapping,
   indexed |-> DOMAIN componentValueEntities,
   subscribed |-> componentRegistrations]

\* mutant: the presence index and the value indices are not reset
clearKeepingIndices ==
  /\ currId' = InitFields.currId
  /\ entities' = InitFields.entities
  /\ entityNameMapping' = InitFields.entityNameMapping
  /\ entityRegistrations' = InitFields.entityRegistrations
  /\ componentRegistrations' = InitFields.componentRegistrations
  /\ lastOp' = OpValue("clear", -1, <<>>, "ok", Held)
  /\ delivered' = <<>>
  /\ issued' = [issued EXCEPT !.reset = TRUE, !.imported = {}]
  /\ UNCHANGED <<componentEntities, componentValueEntities>>

\* getNamed(name)
getNamed(name) ==
  LET id == Resolve(ByName(name))
  IN IF id = NoId \/ ~Exists(entities, id)
     THEN NoChange(OpValue("getNamed", -1, <<>>, "throw", ByName(name)))
     ELSE NoChange(OpValue("getNamed", id, entities[id], "ok", ByName(name)))

\* mutant: an entity that does not exist is reported to hold nothing
hasComponentLenient(id, type) ==
  LET entityId == Resolve(id)
  IN IF ~Exists(entities, entityId)
     THEN NoChange(OpValue("hasComponent", -1, <<>>, "false", id))
     ELSE NoChange(OpValue("hasComponent", entityId, type,
                           IF EntityHas(entities[entityId], type)
                           THEN "true" ELSE "false", id))

\* hasComponent(id, type)
hasComponent(id, type) ==
  LET entityId == Resolve(id)
  IN IF ~Exists(entities, entityId)
     THEN NoChange(OpValue("hasComponent", -1, <<>>, "throw", id))
     ELSE NoChange(OpValue("hasComponent", entityId, type,
                           IF EntityHas(entities[entityId], type)
                           THEN "true" ELSE "false", id))

\* observeNamedEntity$(name).subscribe(...)
observeNamedEntity(name) ==
  LET id == Resolve(ByName(name))
  IN IF id = NoId
     THEN NoChange(OpValue("observeNamedEntity", -1, <<>>, "throw", ByName(name)))
     ELSE IF ~Exists(entities, id)
     THEN \* observeEntity$(id): checkEntity throws
          NoChange(OpValue("observeNamedEntity", -1, <<>>, "throw", ByName(name)))
     ELSE /\ entityRegistrations' = entityRegistrations \cup {id}
          /\ lastOp' = OpValue("observeNamedEntity", id, <<>>, "ok", ByName(name))
          /\ delivered' = <<>>
          /\ UNCHANGED <<currId, entities, entityNameMapping, componentEntities,
                         componentValueEntities, componentRegistrations, issued>>

\* clear()
clear ==
  /\ currId' = InitFields.currId
  /\ entities' = InitFields.entities
  /\ entityNameMapping' = InitFields.entityNameMapping
  /\ componentEntities' = InitFields.componentEntities
  /\ componentValueEntities' = InitFields.componentValueEntities
  /\ entityRegistrations' = InitFields.entityRegistrations
  /\ componentRegistrations' = InitFields.componentRegistrations
  /\ lastOp' = OpValue("clear", -1, <<>>, "ok", Held)
  /\ delivered' = <<>>
  /\ issued' = [issued EXCEPT !.reset = TRUE, !.imported = {}]

\* matchingIds(...types)
matchingIds(types) ==
  /\ lastOp' = OpValue("matchingIds", -1, types, "ok",
                       MatchingIds(componentEntities, types))
  /\ delivered' = <<>>
  /\ UNCHANGED <<currId, entities, entityNameMapping, componentEntities,
                 componentValueEntities, entityRegistrations,
                 componentRegistrations, issued>>

\* indexedEntitiesForType(component): the value index of the component's type,
\* `undefined` (and then a throw) when the type was never indexed
IndexedEntitiesForType(valueEntities, component) ==
  Lookup(valueEntities, TypeOf(component))

\* a query: the manager is left as it is
Query(op) ==
  /\ lastOp' = op
  /\ delivered' = <<>>
  /\ UNCHANGED <<currId, entities, entityNameMapping, componentEntities,
                 componentValueEntities, entityRegistrations,
                 componentRegistrations, issued>>

\* the values a HashTable on its own is handed
TableValues == 0..MaxId

\* hashTable.add(key, value)
hashTableAdd(key, value) ==
  /\ table' = HashTableAdd(table, key, value)
  /\ Query(Op("HashTable.add", value, key, "ok"))

\* hashTable.remove(key, value): false when the digest has no bucket
hashTableRemove(key, value) ==
  /\ table' = HashTableRemove(table, key, value)
  /\ Query(Op("HashTable.remove", value, key,
              IF Hash(key) \in DOMAIN table THEN "true" ELSE "false"))

\* get(id).components(...types)
entityComponents(id, types) ==
  /\ Exists(entities, id)
  /\ LET got == EntityComponents(entities[id], types)
     IN Query(OpValue("Entity.components", id, types,
                      IF got.threw THEN "throw" ELSE "ok",
                      [instances |-> got.instances]))

\* get(id).has(types)
entityHas(id, types) ==
  /\ Exists(entities, id)
  /\ Query(Op("Entity.has", id, types,
              IF EntityHasAll(entities[id], types) THEN "true" ELSE "false"))

\* get(id): the stored Entity, or a throw
get(id) ==
  IF ~Exists(entities, id)
  THEN Query(Op("get", -1, <<>>, "throw"))
  ELSE Query(Op("get", id, entities[id], "ok"))

\* hasIndex(entityId, component)
hasIndex(entityId, component) ==
  LET typeEntities == IndexedEntitiesForType(componentValueEntities, component)
  IN IF typeEntities = Undefined
     THEN Query(Op("hasIndex", entityId, component, "throw"))
     ELSE Query(Op("hasIndex", entityId, component,
                   IF HashTableHasValue(typeEntities, component, entityId)
                   THEN "true" ELSE "false"))

\* mutant: a type without value index is given an empty one and an empty answer
matchingIndexCreating(component) ==
  LET typeEntities == IndexedEntitiesForType(componentValueEntities, component)
  IN IF typeEntities = Undefined
     THEN /\ componentValueEntities' =
               MapPut(componentValueEntities, TypeOf(component), EmptyHashTable)
          /\ lastOp' = OpValue("matchingIndex", -1, component, "ok",
                               [entities |-> <<>>])
          /\ delivered' = <<>>
          /\ UNCHANGED <<currId, entities, entityNameMapping, componentEntities,
                         entityRegistrations, componentRegistrations, issued>>
     ELSE Query(OpValue("matchingIndex", -1, component, "ok",
                        [entities |-> [id \in HashTableGet(typeEntities, component)
                                         |-> Lookup(entities, id)]]))

\* matchingIndex(component): one array slot per id of the bucket, holding
\* this.entities[id]
matchingIndex(component) ==
  LET typeEntities == IndexedEntitiesForType(componentValueEntities, component)
  IN IF typeEntities = Undefined
     THEN Query(Op("matchingIndex", -1, component, "throw"))
     ELSE Query(OpValue("matchingIndex", -1, component, "ok",
                        [entities |-> [id \in HashTableGet(typeEntities, component)
                                         |-> Lookup(entities, id)]]))

\* countIndex(component): matchingIndex(component).length
countIndex(component) ==
  LET typeEntities == IndexedEntitiesForType(componentValueEntities, component)
  IN IF typeEntities = Undefined
     THEN Query(Op("countIndex", -1, component, "throw"))
     ELSE Query(OpValue("countIndex", -1, component, "ok",
                        [length |-> Cardinality(HashTableGet(typeEntities, component))]))

RECURSIVE EachCalls(_, _, _), EachCallsStoredOrder(_, _, _)
\* mutant: the callback is handed the components in the order the entity
\* stores them
EachCallsStoredOrder(ents, types, ids) ==
  IF ids = {} THEN <<>>
  ELSE LET id == CHOOSE i \in ids : \A j \in ids : i <= j
           entity == ents[id]
       IN <<[e |-> entity, instances |-> AllComponents(entity)]>>
            \o EachCallsStoredOrder(ents, types, ids \ {id})

\* the forEach of each: one callback(entity, ...instances) per id
EachCalls(ents, types, ids) ==
  IF ids = {} THEN <<>>
  ELSE LET id == CHOOSE i \in ids : \A j \in ids : i <= j
           entity == ents[id]
       IN <<[e |-> entity,
             instances |-> [t \in 1..Len(types) |-> EntityComponent(entity, types[t])]]>>
            \o EachCalls(ents, types, ids \ {id})

\* each(callback, ...types); value is the calls the callback received
each(types) ==
  LET ids == MatchingIds(componentEntities, types)
  IN IF \E id \in ids : \/ ~Exists(entities, id)
                        \/ \E t \in 1..Len(types) : ~EntityHas(entities[id], types[t])
     THEN \* entity.component(t) throws
          Query(Op("each", -1, types, "throw"))
     ELSE Query(OpValue("each", -1, types, "ok",
                        [calls |-> EachCalls(entities, types, ids)]))

\* what a callback handed to each does to the manager, on its first call:
\* em.remove(id), em.removeComponent(id, type) or em.createEntity(...components)
Callbacks ==
  {[kind |-> "remove", id |-> id] : id \in Ids}
    \cup {[kind |-> "removeComponent", id |-> id, type |-> type] :
            id \in Ids, type \in Types}
    \cup {[kind |-> "createEntity", components |-> components] :
            components \in SeqsUpTo(Components, MaxComps)}

\* the call the callback makes; w is the manager while each is running
CallbackRuns(w, callback) ==
  IF callback.kind = "remove"
  THEN IF Exists(w.st.entities, callback.id)
       THEN [w EXCEPT !.st = RemoveEntity(@, callback.id)]
       ELSE w
  ELSE IF callback.kind = "removeComponent"
  THEN [w EXCEPT !.st = RemoveComponentFrom(@, callback.id, callback.type, TRUE)]
  ELSE LET alloc == AllocId(w.currId)
       IN [st |-> CreateEntityWithId(w.st, alloc.id, callback.components),
           currId |-> alloc.next]

\* the forEach of each over the array matchingIds returned, with a callback
\* that calls the manager: entity and instances are looked up when the id is
\* reached, and a missing entity or component throws out of each
RECURSIVE EachWithCallback(_, _, _, _, _, _)
EachWithCallback(w, types, ids, callback, fired, calls) ==
  IF ids = {} THEN [w |-> w, calls |-> calls, threw |-> FALSE]
  ELSE LET id == CHOOSE i \in ids : \A j \in ids : i <= j
           entity == Lookup(w.st.entities, id)
       IN IF entity = Undefined
          THEN \* entity.component(t) on undefined
               [w |-> w, calls |-> calls, threw |-> TRUE]
          ELSE IF \E t \in 1..Len(types) : ~EntityHas(entity, types[t])
          THEN \* entity.component(t) throws
               [w |-> w, calls |-> calls, threw |-> TRUE]
          ELSE EachWithCallback(IF fired THEN w ELSE CallbackRuns(w, callback),
                                types, ids \ {id}, callback, TRUE,
                                Append(calls, id))

\* each(callback, ...types) with a callback that calls the manager; the
\* record keeps the ids matchingIds returned and the ids the callback was
\* called for
eachCalling(types, callback) ==
  /\ callback.kind \in {"remove", "removeComponent"} => Exists(entities, callback.id)
  /\ callback.kind = "createEntity" => currId < MaxId
  /\ LET ids == MatchingIds(componentEntities, types)
         done == EachWithCallback([st |-> Store, currId |-> currId], types, ids,
                                  callback, FALSE, <<>>)
     IN /\ Commit(done.w.st)
        /\ currId' = done.w.currId
        /\ lastOp' = OpValue("each", -1, types,
                             IF done.threw THEN "throw" ELSE "ok",
                             [ids |-> ids, callback |-> callback,
                              calls |-> done.calls])
        /\ issued' = [issued EXCEPT !.ids = @ \cup (DOMAIN done.w.st.entities)]
  /\ UNCHANGED <<entityNameMapping, entityRegistrations, componentRegistrations>>

\* exists(id)
exists(id) ==
  Query(Op("exists", id, <<>>, IF Exists(entities, id) THEN "true" ELSE "false"))

\* count(): Object.keys(this.entities).length
count ==
  Query(OpValue("count", -1, <<>>, "ok", [length |-> Cardinality(DOMAIN entities)]))

\* matching(...types): matchingIds(...types).map(id => this.entities[id])
matching(types) ==
  Query(OpValue("matching", -1, types, "ok",
                [entities |-> [id \in MatchingIds(componentEntities, types)
                                 |-> Lookup(entities, id)]]))

\* ------------------------------------------------------- export / import
\* JSON.parse(JSON.stringify(component)): the component's own fields
ToJson(component) ==
  IF TypeOf(component) = "Position"
  THEN [x |-> component.x, y |-> component.y]
  ELSE [size |-> component.size]

\* new componentTypes[componentName](componentData); the registry maps a
\* name to the constructor of that name
Construct(componentName, componentData) ==
  IF componentName = "Position" THEN Position(componentData)
  ELSE Physical(componentData)

\* Array.from(map.keys()) of a Map with the keys S
RECURSIVE KeysOf(_)
KeysOf(S) ==
  IF S = {} THEN <<>>
  ELSE LET k == CHOOSE x \in S : TRUE IN <<k>> \o KeysOf(S \ {k})

\* toData(): every entity's components as JSON objects keyed by type name,
\* and the names of the types that have a value index
ToData(st) ==
  [indexed |-> KeysOf(DOMAIN st.componentValueEntities),
   entities |-> [id \in DOMAIN st.entities |->
                   LET components == AllComponents(st.entities[id])
                   IN [i \in 1..Len(components) |->
                         [name |-> TypeOf(components[i]),
                          data |-> ToJson(components[i])]]]]

Min(S) == CHOOSE m \in S : \A n \in S : m <= n
Max(S) == CHOOSE m \in S : \A n \in S : m >= n

\* the first loop of fromData over Object.entries(data.entities), which lists
\* integer keys in ascending order; stops at the first unregistered name
RECURSIVE ImportEntities(_, _, _, _)
ImportEntities(st, dataEntities, ids, componentTypes) ==
  IF ids = {} THEN [store |-> st, threw |-> FALSE]
  ELSE LET entityId == Min(ids)
           components == dataEntities[entityId]
       IN IF \E i \in 1..Len(components) : components[i].name \notin componentTypes
          THEN [store |-> st, threw |-> TRUE]
          ELSE ImportEntities(
                 CreateEntityWithId(st, entityId,
                   [i \in 1..Len(components) |->
                      Construct(components[i].name, components[i].data)]),
                 dataEntities, ids \ {entityId}, componentTypes)

\* mutant: the index is configured but no imported component is added to it
IndexByOnEmpty(st, componentType) ==
  [st EXCEPT !.componentValueEntities = MapPut(@, componentType, EmptyHashTable)]

\* the body of indexBy on a store
IndexByOn(st, componentType) ==
  LET typeEntities == IF componentType \in DOMAIN st.componentEntities
                      THEN st.componentEntities[componentType] ELSE {}
  IN [st EXCEPT !.componentValueEntities =
        MapPut(@, componentType,
               IndexEach(EmptyHashTable, st.entities, componentType, typeEntities))]

\* the second loop of fromData over data.indexed
RECURSIVE ImportIndexed(_, _, _)
ImportIndexed(st, indexed, componentTypes) ==
  IF indexed = <<>> THEN [store |-> st, threw |-> FALSE]
  ELSE IF Head(indexed) \notin componentTypes
       THEN [store |-> st, threw |-> TRUE]
       ELSE ImportIndexed(IndexByOn(st, Head(indexed)), Tail(indexed), componentTypes)

\* mutant: the import starts from the store as it is
ClearedStoreKeeping == Store

\* the store clear() leaves behind
ClearedStore ==
  [entities |-> InitFields.entities,
   componentEntities |-> InitFields.componentEntities,
   componentValueEntities |-> InitFields.componentValueEntities,
   entityRegistrations |-> InitFields.entityRegistrations,
   componentRegistrations |-> InitFields.componentRegistrations,
   delivered |-> <<>>]

\* mutant: the counter is set to the highest imported id itself
NextIdAfterImportSame(highestId) == highestId

\* this.currId = highestId + 1
NextIdAfterImport(highestId) == highestId + 1

\* the JSON objects import data gives an entity
ImportObjects ==
  {<<[name |-> "Position", data |-> ToJson(p)]>> : p \in PositionValues}
  \cup {<<[name |-> "Physical", data |-> ToJson(Physical(FILL))]>>}

\* import data: entities under ids of the model, indexed by nothing or Position
ImportData ==
  {[indexed |-> indexed, entities |-> es] :
     indexed \in {<<>>, <<"Position">>},
     es \in UNION {[S -> ImportObjects] : S \in SUBSET Ids}}

\* registries: complete, or lacking the Position constructor
Registries == {Types, Types \ {"Position"}}

\* the two loops of fromData on the cleared store: the store they leave, and
\* whether one of them threw
ImportOutcome(data, componentTypes) ==
  LET created == ImportEntities(ClearedStore, data.entities, DOMAIN data.entities,
                                componentTypes)
  IN IF created.threw THEN created
     ELSE ImportIndexed(created.store, data.indexed, componentTypes)

\* ImportOutcome of the enumerated inputs, computed once
ImportOutcomes ==
  [p \in ImportData \X Registries |-> ImportOutcome(p[1], p[2])]

\* fromData(data, componentTypes)
fromData(data, componentTypes) ==
  LET highestId == IF DOMAIN data.entities = {} THEN 0 ELSE Max(DOMAIN data.entities)
      indexedAll == IF <<data, componentTypes>> \in DOMAIN ImportOutcomes
                    THEN ImportOutcomes[<<data, componentTypes>>]
                    ELSE ImportOutcome(data, componentTypes)
  IN /\ Commit(indexedAll.store)
     /\ entityNameMapping' = InitFields.entityNameMapping
     /\ entityRegistrations' = InitFields.entityRegistrations
     /\ componentRegistrations' = InitFields.componentRegistrations
     /\ currId' = IF indexedAll.threw THEN InitFields.currId
                   ELSE NextIdAfterImport(highestId)
     /\ lastOp' = OpValue("fromData", highestId,
                          [data |-> data, componentTypes |-> componentTypes],
                          IF indexedAll.threw THEN "throw" ELSE "ok",
                          Held)
     /\ issued' = [issued EXCEPT !.reset = TRUE,
                                 !.imported = IF indexedAll.threw THEN {}
                                              ELSE DOMAIN data.entities]

\* the manager holds only component values of the bounded model
Exportable(st) ==
  \A id \in DOMAIN st.entities :
    \A i \in 1..Len(AllComponents(st.entities[id])) :
      AllComponents(st.entities[id])[i] \in Components

\* toData()
toData ==
  Query(OpValue("toData", -1, <<>>, "ok", ToData(Store)))

\* fromData(toData(), componentTypes): the manager's own export, imported
roundTrip(componentTypes) ==
  /\ Exportable(Store)
  /\ fromData(ToData(Store), componentTypes)

\* the store: every operation but the subscriptions
Next ==
  \/ \E components \in SeqsUpTo(Components, MaxComps) : createEntity(components) /\ Track
  \/ \E name \in Names, components \in SeqsUpTo(Components, MaxComps) :
       createNamedEntity(name, components) /\ Track
  \/ \E id \in Ids, name \in Names : setEntityName(id, name) /\ Track
  \/ \E id \in Ids : remove(id) /\ Track
  \/ \E name \in Names : removeNamed(name) /\ Track
  \/ \E componentType \in HashableTypes : indexBy(componentType) /\ Track
  \/ \E id \in IdOrName, component \in Components : setComponent(id, component) /\ Track
  \/ \E id \in IdOrName, type \in Types : removeComponent(id, type) /\ Track
  \/ clear /\ Track
  \/ \E types \in SeqsUpTo(Types, MaxQueryTypes) : matchingIds(types) /\ Track

Spec == Init /\ [][Next]_vars

\* the notification hub: subscriptions and the mutations that publish
NextNotify ==
  \/ \E components \in SeqsUpTo(Components, MaxComps) : createEntity(components) /\ Track
  \/ \E id \in Ids : remove(id) /\ Track
  \/ \E componentType \in HashableTypes : indexBy(componentType) /\ Track
  \/ \E id \in Ids, component \in Components : setComponent(ById(id), component) /\ Track
  \/ \E id \in Ids, type \in Types : removeComponent(ById(id), type) /\ Track
  \/ \E id \in Ids : observeEntity(id) /\ Track
  \/ \E type \in Types : observeComponentType(type) /\ Track

SpecNotify == Init /\ [][NextNotify]_vars

\* import, and the mutations that follow it
NextImport ==
  \/ \E data \in ImportData, componentTypes \in Registries :
       fromData(data, componentTypes) /\ Track
  \/ \E componentTypes \in Registries : roundTrip(componentTypes) /\ Track
  \/ \E components \in SeqsUpTo(Components, MaxComps) : createEntity(components) /\ Track
  \/ \E name \in Names, components \in SeqsUpTo(Components, MaxComps) :
       createNamedEntity(name, components) /\ Track
  \/ \E id \in Ids : remove(id) /\ Track
  \/ \E componentType \in HashableTypes : indexBy(componentType) /\ Track

SpecImport == Init /\ [][NextImport]_vars

\* named entities: the operations that take or resolve a name
NextNames ==
  \/ \E components \in SeqsUpTo(Components, MaxComps) : createEntity(components) /\ Track
  \/ \E name \in Names, components \in SeqsUpTo(Components, MaxComps) :
       createNamedEntity(name, components) /\ Track
  \/ \E id \in Ids : remove(id) /\ Track
  \/ \E name \in Names : removeNamed(name) /\ Track
  \/ \E name \in Names : getNamed(name) /\ Track
  \/ \E id \in IdOrName, component \in Components : setComponent(id, component) /\ Track
  \/ \E id \in IdOrName, type \in Types : removeComponent(id, type) /\ Track
  \/ \E id \in IdOrName, type \in Types : hasComponent(id, type) /\ Track
  \/ \E name \in Names : observeNamedEntity(name) /\ Track
  \/ clear /\ Track

SpecNames == Init /\ [][NextNames]_vars

\* subscriptions across a reset of the manager
NextReset ==
  \/ \E components \in SeqsUpTo(Components, MaxComps) : createEntity(components) /\ Track
  \/ \E id \in Ids : remove(id) /\ Track
  \/ \E id \in Ids, component \in Components : setComponent(ById(id), component) /\ Track
  \/ \E id \in Ids : observeEntity(id) /\ Track
  \/ \E type \in Types : observeComponentType(type) /\ Track
  \/ clear /\ Track

SpecReset == Init /\ [][NextReset]_vars

\* the queries, over the mutations that feed the indices
NextQuery ==
  \/ \E components \in SeqsUpTo(Components, MaxComps) : createEntity(components) /\ Track
  \/ \E id \in Ids : remove(id) /\ Track
  \/ \E id \in Ids, component \in Components : setComponent(ById(id), component) /\ Track
  \/ \E id \in Ids, type \in Types : removeComponent(ById(id), type) /\ Track
  \/ \E componentType \in HashableTypes : indexBy(componentType) /\ Track
  \/ clear /\ Track
  \/ \E id \in Ids, component \in Components : hasIndex(id, component) /\ Track
  \/ \E component \in Components : countIndex(component) /\ Track
  \/ \E component \in Components : matchingIndex(component) /\ Track
  \/ \E types \in SeqsUpTo(Types, MaxQueryTypes) : each(types) /\ Track

SpecQuery == Init /\ [][NextQuery]_vars

\* Entity objects kept by a caller across later mutations
NextSnapshot ==
  \/ \E components \in SeqsUpTo(Components, MaxComps), keep \in BOOLEAN :
       createEntity(components) /\ TrackSnapshot(keep)
  \/ \E id \in Ids, keep \in BOOLEAN : get(id) /\ TrackSnapshot(keep)
  \/ \E id \in Ids, component \in Components :
       setComponent(ById(id), component) /\ TrackSnapshot(FALSE)
  \/ \E id \in Ids, type \in Types :
       removeComponent(ById(id), type) /\ TrackSnapshot(FALSE)
  \/ \E id \in Ids : remove(id) /\ TrackSnapshot(FALSE)
  \/ clear /\ TrackSnapshot(FALSE)

SpecSnapshot == Init /\ [][NextSnapshot]_vars

\* opening subscriptions on entities that come and go
NextSubscribe ==
  \/ \E components \in SeqsUpTo(Components, MaxComps) : createEntity(components) /\ Track
  \/ \E name \in Names, components \in SeqsUpTo(Components, MaxComps) :
       createNamedEntity(name, components) /\ Track
  \/ \E id \in Ids : remove(id) /\ Track
  \/ \E id \in Ids : observeEntity(id) /\ Track
  \/ \E id \in Ids, type \in Types : observeEntityComponent(id, type) /\ TrackWatched
  \/ \E name \in Names : observeNamedEntity(name) /\ Track
  \/ \E type \in Types : observeComponentType(type) /\ Track

SpecSubscribe == Init /\ [][NextSubscribe]_vars

\* subscribers of one type on one entity, and the mutations that publish
NextWatch ==
  \/ \E components \in SeqsUpTo(Components, MaxComps) :
       createEntity(components) /\ TrackWatched
  \/ \E id \in Ids : remove(id) /\ TrackWatched
  \/ \E id \in Ids, component \in Components :
       setComponent(ById(id), component) /\ TrackWatched
  \/ \E id \in Ids, type \in Types : removeComponent(ById(id), type) /\ TrackWatched
  \/ \E id \in Ids, type \in Types : observeEntityComponent(id, type) /\ TrackWatched

SpecWatch == Init /\ [][NextWatch]_vars

\* the queries, over managers with names, a value index and subscribers
NextReadOnly ==
  \/ \E components \in SeqsUpTo(Components, MaxComps) : createEntity(components) /\ Track
  \/ \E name \in Names, components \in SeqsUpTo(Components, MaxComps) :
       createNamedEntity(name, components) /\ Track
  \/ \E id \in Ids : remove(id) /\ Track
  \/ \E componentType \in HashableTypes : indexBy(componentType) /\ Track
  \/ \E type \in HashableTypes : observeComponentType(type) /\ Track
  \/ \E id \in Ids : get(id) /\ Track
  \/ \E name \in Names : getNamed(name) /\ Track
  \/ \E id \in Ids : exists(id) /\ Track
  \/ count /\ Track
  \/ \E id \in IdOrName, type \in Types : hasComponent(id, type) /\ Track
  \/ \E types \in SeqsUpTo(Types, MaxQueryTypes) : matching(types) /\ Track
  \/ \E types \in SeqsUpTo(Types, MaxQueryTypes) : matchingIds(types) /\ Track
  \/ \E types \in SeqsUpTo(Types, MaxQueryTypes) : each(types) /\ Track
  \/ \E id \in Ids, component \in PositionValues : hasIndex(id, component) /\ Track
  \/ \E component \in PositionValues : countIndex(component) /\ Track
  \/ \E component \in PositionValues : matchingIndex(component) /\ Track
  \/ toData /\ Track

SpecReadOnly == Init /\ [][NextReadOnly]_vars

\* creates under a subscriber that calls back into the manager
NextReentrant ==
  \/ \E components \in SeqsUpTo(Components, MaxComps) : createEntity(components) /\ Track
  \/ \E components \in SeqsUpTo(Components, MaxComps), type \in Types :
       createEntityReentrant(components, type) /\ Track
  \/ \E id \in Ids : remove(id) /\ Track
  \/ \E componentType \in HashableTypes : indexBy(componentType) /\ Track
  \/ \E type \in Types : observeComponentType(type) /\ Track

SpecReentrant == Init /\ [][NextReentrant]_vars

\* each with callbacks that call the manager
NextEach ==
  \/ \E components \in SeqsUpTo(Components, MaxComps) : createEntity(components) /\ Track
  \/ \E id \in Ids : remove(id) /\ Track
  \/ \E types \in SeqsUpTo(Types, MaxQueryTypes), callback \in Callbacks :
       eachCalling(types, callback) /\ Track

SpecEach == Init /\ [][NextEach]_vars

\* the accessors of the Entity snapshots the manager stores
NextEntity ==
  \/ \E components \in SeqsUpTo(Components, MaxComps) : createEntity(components) /\ Track
  \/ \E id \in Ids, component \in Components : setComponent(ById(id), component) /\ Track
  \/ \E id \in Ids, type \in Types : removeComponent(ById(id), type) /\ Track
  \/ \E id \in Ids, types \in SeqsUpTo(Types, MaxQueryTypes) :
       entityComponents(id, types) /\ Track
  \/ \E id \in Ids, types \in SeqsUpTo(Types, MaxQueryTypes) :
       entityHas(id, types) /\ Track

SpecEntity == Init /\ [][NextEntity]_vars

\* a HashTable on its own
NextTable ==
  \/ \E key \in PositionValues, value \in TableValues :
       hashTableAdd(key, value) /\ TrackTable
  \/ \E key \in PositionValues, value \in TableValues :
       hashTableRemove(key, value) /\ TrackTable

SpecTable == Init /\ [][NextTable]_vars

\* ================================================================ claims
\* the live entities that hold a component of the type
HoldersOf(ents, type) == {id \in DOMAIN ents : EntityHas(ents[id], type)}

\* presenceIndex[type], empty when the type has no entry
PresenceOf(presence, type) == IF type \in DOMAIN presence THEN presence[type] ELSE {}

\* the presence index of a view agrees with its entity storage
PresenceConsistent(v) ==
  \A type \in Types : PresenceOf(v.componentEntities, type) = HoldersOf(v.entities, type)

\* the live entities whose component of c's type has the digest of c
WithDigest(ents, c) ==
  {id \in HoldersOf(ents, TypeOf(c)) :
     Hash(EntityComponent(ents[id], TypeOf(c))) = Hash(c)}

\* every configured value index of a view agrees with its entity storage
ValueConsistent(v) ==
  \A type \in DOMAIN v.componentValueEntities :
    \A c \in {k \in Components : TypeOf(k) = type} :
      MatchingIndex(v.entities, v.componentValueEntities, c)
        = {v.entities[id] : id \in WithDigest(v.entities, c)}

Creates == {"createEntity", "createNamedEntity"}

\* C1: after every public operation, an id is in presenceIndex[T] exactly when
\* it is a live entity whose snapshot holds a T, and matchingIds(T) is exactly
\* the set of live entities holding T.  (Stated as claimed; the code breaks it.)
C1_PresenceIndexConsistent ==
  /\ PresenceConsistent(View(Store))
  /\ \A type \in Types :
       MatchingIds(componentEntities, <<type>>) = HoldersOf(entities, type)

\* C2: for every type with a value index, matchingIndex(v) is exactly the
\* live entities whose current component of that type has the digest of v.
\* (Stated as claimed; the code breaks it.)
C2_ValueIndexConsistent == ValueConsistent(View(Store))

\* the ids that are in presenceIndex[type] for every requested type
InEveryPresenceSet(presence, types) ==
  IF types = <<>> \/ \E i \in 1..Len(types) : types[i] \notin DOMAIN presence
  THEN {}
  ELSE {id \in UNION {presence[t] : t \in DOMAIN presence} :
          \A i \in 1..Len(types) : id \in presence[types[i]]}

\* C3: matchingIds(T1..Tn) returns exactly the ids that are in presenceIndex[Ti]
\* for every requested Ti, and nothing when the request is empty or a requested
\* type has no presence-index entry.
C3_MatchingIdsIsIntersection ==
  lastOp.op = "matchingIds"
    => lastOp.value = InEveryPresenceSet(componentEntities, lastOp.arg)

\* C3 witness: a two-type query answered with a proper, non-empty part of the
\* first type's presence set
C3_Witness ==
  /\ lastOp.op = "matchingIds"
  /\ Len(lastOp.arg) = 2
  /\ lastOp.arg[1] # lastOp.arg[2]
  /\ lastOp.value # {}
  /\ lastOp.value # componentEntities[lastOp.arg[1]]

\* C4: while neither clear nor import has run, every create returns an id
\* strictly greater than every id issued before it.
C4_MonotonicIds ==
  [][(lastOp'.op \in Creates /\ lastOp'.result = "ok" /\ ~issued'.reset)
       => \A earlier \in issued.ids : lastOp'.id > earlier]_vars

\* C4 witness: a second id issued after the first entity was removed
C4_Witness ==
  /\ lastOp.op \in Creates
  /\ lastOp.result = "ok"
  /\ ~issued.reset
  /\ lastOp.id > 0
  /\ 0 \notin DOMAIN entities
  /\ 0 \in issued.ids

\* C5: the first create after a clear() returns the highest id issued before
\* the clear plus one.  (Stated as claimed; the code breaks it.)
C5_IdsContinueAcrossClear ==
  [][(lastOp.op = "clear" /\ lastOp'.op \in Creates /\ lastOp'.result = "ok"
        /\ issued.ids # {})
       => lastOp'.id = Max(issued.ids) + 1]_vars

\* what a subscriber is handed: the event without the view taken for it
Payload(event) ==
  IF event.channel = "entity"
  THEN [channel |-> "entity", id |-> event.id, e |-> event.e]
  ELSE [channel |-> "component", type |-> event.type, id |-> event.id,
        e |-> event.e, c |-> event.c]

Payloads(events) == [i \in 1..Len(events) |-> Payload(events[i])]

\* the records the subscriber of the component channel of type was handed
ComponentRecords(events, type) ==
  SelectSeq(events, LAMBDA ev : ev.channel = "component" /\ ev.type = type)

\* C6: a subscriber of one entity's channel that follows create, setComponent,
\* removeComponent, remove of that entity has received exactly four
\* notifications: three snapshots of the entity and then the absent marker.
\* (Stated as claimed; the code breaks it.)
C6_NotificationCompleteness ==
  scenario.stage = 4
    => /\ Len(scenario.received) = 4
       /\ \A i \in 1..3 : scenario.received[i] # Undefined
       /\ scenario.received[4] = Undefined

\* C7: a setComponent that replaces a component publishes exactly the new
\* snapshot on the entity channel and exactly one record with the new value on
\* the type channel, and nothing for the value it replaced.
C7_ReplaceIsSingleEvent ==
  (lastOp.op = "setComponent" /\ lastOp.result = "replaced")
    => Payloads(delivered)
         = (IF lastOp.id \in entityRegistrations
            THEN <<[channel |-> "entity", id |-> lastOp.id, e |-> entities[lastOp.id]]>>
            ELSE <<>>)
           \o (IF TypeOf(lastOp.arg) \in componentRegistrations
               THEN <<[channel |-> "component", type |-> TypeOf(lastOp.arg),
                       id |-> lastOp.id, e |-> entities[lastOp.id], c |-> lastOp.arg]>>
               ELSE <<>>)

\* C7 witness: a replace seen by a subscriber of the entity and one of the type
C7_Witness ==
  /\ lastOp.op = "setComponent"
  /\ lastOp.result = "replaced"
  /\ lastOp.id \in entityRegistrations
  /\ TypeOf(lastOp.arg) \in componentRegistrations
  /\ Len(delivered) = 2

\* C8: remove(id) of a live entity hands the subscribers of its channel exactly
\* one absent marker, whatever number of components the entity holds.
\* (Stated as claimed; the code breaks it.)
C8_RemoveNotifiesOnce ==
  (lastOp.op = "remove" /\ lastOp.result = "true" /\ lastOp.id \in entityRegistrations)
    => EntityPayloads(delivered, lastOp.id) = <<Undefined>>

\* the component types a create or setComponent call was handed
SuppliedTypes(op) ==
  IF op.op = "setComponent" THEN {TypeOf(op.arg)}
  ELSE {TypeOf(op.arg[i]) : i \in 1..Len(op.arg)}

\* C9: a record on the channel of type T carries, for create or setComponent,
\* the new snapshot and the T value it now holds; for removeComponent the new
\* snapshot, which holds no T, and no component; for remove neither entity nor
\* component; and each such operation hands a subscriber of T a record.
\* (Stated as claimed; the code breaks it.)
C9_TypeChannelPayloads ==
  \A type \in componentRegistrations :
    LET records == ComponentRecords(delivered, type)
    IN /\ (lastOp.op \in Creates \cup {"setComponent"}
             /\ lastOp.result \in {"ok", "added", "replaced"})
          => /\ type \in SuppliedTypes(lastOp) => records # <<>>
             /\ \A i \in 1..Len(records) :
                  /\ records[i].id = lastOp.id
                  /\ records[i].e = entities[lastOp.id]
                  /\ records[i].c = EntityComponent(entities[lastOp.id], type)
       /\ (lastOp.op = "removeComponent" /\ lastOp.result = "true")
          => /\ lastOp.arg = type => records # <<>>
             /\ \A i \in 1..Len(records) :
                  /\ records[i].id = lastOp.id
                  /\ records[i].e = entities[lastOp.id]
                  /\ ~EntityHas(records[i].e, type)
                  /\ records[i].c = Undefined
       /\ (lastOp.op = "remove" /\ lastOp.result = "true")
          => \A i \in 1..Len(records) :
               /\ records[i].id = lastOp.id
               /\ records[i].e = Undefined
               /\ records[i].c = Undefined

\* C10: whenever a notification callback runs, the presence index and every
\* configured value index agree with entity storage.
\* (Stated as claimed; the code breaks it.)
C10_IndexUpdatesPrecedeNotification ==
  \A i \in 1..Len(delivered) :
    /\ PresenceConsistent(delivered[i].seen)
    /\ ValueConsistent(delivered[i].seen)

\* the operations that change an entity, and the results of a call that did
MutatingOps == Creates \cup {"setComponent", "removeComponent", "remove", "removeNamed"}

Succeeded(op) == op.result \in {"ok", "added", "replaced", "true"}

\* C11: every notification a mutation causes is delivered before the call
\* returns: what a call delivered concerns the entity that call changed and no
\* other call, a subscriber of the changed entity has been handed the state
\* the call produced, and a subscriber of the changed type has been handed its
\* record; nothing is left to be delivered by a later call, so a subscriber
\* receives the notifications in the order of the calls.
C11_SynchronousOrderedDelivery ==
  /\ delivered # <<>> => (lastOp.op \in MutatingOps /\ Succeeded(lastOp))
  /\ \A i \in 1..Len(delivered) : delivered[i].id = lastOp.id
  /\ LET payloads == EntityPayloads(delivered, lastOp.id)
     IN payloads # <<>> => payloads[Len(payloads)] = Lookup(entities, lastOp.id)
  /\ (lastOp.op = "setComponent" /\ Succeeded(lastOp))
       => /\ lastOp.id \in entityRegistrations
               => EntityPayloads(delivered, lastOp.id) # <<>>
          /\ TypeOf(lastOp.arg) \in componentRegistrations
               => ComponentRecords(delivered, TypeOf(lastOp.arg)) # <<>>
  /\ (lastOp.op = "removeComponent" /\ Succeeded(lastOp))
       => /\ lastOp.id \in entityRegistrations
               => EntityPayloads(delivered, lastOp.id) # <<>>
          /\ lastOp.arg \in componentRegistrations
               => ComponentRecords(delivered, lastOp.arg) # <<>>
  /\ (lastOp.op \in Creates /\ Succeeded(lastOp))
       => \A type \in SuppliedTypes(lastOp) \cap componentRegistrations :
            ComponentRecords(delivered, type) # <<>>

\* C11 witness: a removeComponent whose entity and type both have a subscriber
C11_Witness ==
  /\ lastOp.op = "removeComponent"
  /\ Succeeded(lastOp)
  /\ lastOp.id \in entityRegistrations
  /\ lastOp.arg \in componentRegistrations
  /\ Len(delivered) = 2

\* an import that failed / succeeded is the latest call
ImportFailed == lastOp.op = "fromData" /\ lastOp.result = "throw"
ImportSucceeded == lastOp.op = "fromData" /\ lastOp.result = "ok"

\* C12: after an import that failed for a type name missing from the registry
\* the manager holds no entity, no presence-index entry and no value index.
\* (Stated as claimed; the code breaks it.)
C12_FailedImportRetainsNothing ==
  ImportFailed
    => /\ DOMAIN entities = {}
       /\ \A type \in Types : PresenceOf(componentEntities, type) = {}
       /\ DOMAIN componentValueEntities = {}

\* the component values an entity holds
ComponentSet(e) == {AllComponents(e)[i] : i \in 1..Len(AllComponents(e))}

\* C13: importing the manager's own export with a registry that covers every
\* type succeeds and yields the same entity ids, the same component values for
\* every entity and the same set of value-indexed types.
\* (Stated as claimed; the code breaks it.)
C13_RoundTrip ==
  [][(/\ Exportable(Store)
      /\ lastOp'.op = "fromData"
      /\ lastOp'.arg.data = ToData(Store)
      /\ lastOp'.arg.componentTypes = Types)
       => /\ lastOp'.result = "ok"
          /\ DOMAIN entities' = DOMAIN entities
          /\ \A id \in DOMAIN entities :
               ComponentSet(entities'[id]) = ComponentSet(entities[id])
          /\ DOMAIN componentValueEntities' = DOMAIN componentValueEntities]_vars

\* C14: after a successful import every create returns an id greater than
\* every imported id.
C14_CreateAfterImportIsFresh ==
  [][(lastOp'.op \in Creates /\ Succeeded(lastOp'))
       => \A imported \in issued.imported : lastOp'.id > imported]_vars

\* C14 witness: an entity created next to the imported ones
C14_Witness ==
  /\ lastOp.op \in Creates
  /\ Succeeded(lastOp)
  /\ issued.imported # {}
  /\ issued.imported \subseteq DOMAIN entities
  /\ lastOp.id \notin issued.imported

\* C15: after a successful import the live entities are exactly those of the
\* data, and no entity, name or value index that the manager held only
\* before the import still resolves.
C15_ImportReplacesPriorState ==
  ImportSucceeded
    => LET data == lastOp.arg.data
           prior == lastOp.value
           indexed == {data.indexed[i] : i \in 1..Len(data.indexed)}
       IN /\ DOMAIN entities = DOMAIN data.entities
          /\ \A id \in prior.entities \ DOMAIN data.entities : ~Exists(entities, id)
          /\ \A name \in prior.names : Resolve(ByName(name)) = NoId
          /\ \A type \in prior.indexed \ indexed : type \notin DOMAIN componentValueEntities

\* C15 witness: an import into a manager that held an entity the data lacks,
\* a name and a value index the data does not ask for
C15_Witness ==
  /\ ImportSucceeded
  /\ lastOp.value.entities \ DOMAIN lastOp.arg.data.entities # {}
  /\ lastOp.value.names # {}
  /\ lastOp.value.indexed # {}
  /\ lastOp.arg.data.indexed = <<>>

\* C16: after a successful import every value index the data asks for answers
\* matchingIndex(v) with exactly the imported entities whose component has the
\* digest of v, exactly the asked types are indexed, and the presence index
\* covers every imported component.
C16_ImportRebuildsIndices ==
  ImportSucceeded
    => LET data == lastOp.arg.data
       IN /\ DOMAIN componentValueEntities
               = {data.indexed[i] : i \in 1..Len(data.indexed)}
          /\ ValueConsistent(View(Store))
          /\ PresenceConsistent(View(Store))

\* C16 witness: an import of two entities with the same indexed Position
C16_Witness ==
  /\ ImportSucceeded
  /\ "Position" \in DOMAIN componentValueEntities
  /\ \E c \in PositionValues :
       Cardinality(MatchingIndex(entities, componentValueEntities, c)) = 2

\* count()
Count(ents) == Cardinality(DOMAIN ents)

\* indexedEntitiesForType(component) throws: the type has no value index
NotIndexed(valueEntities, type) == type \notin DOMAIN valueEntities

\* C17: after clear() count() is 0, no id and no name resolves to an entity,
\* matchingIds is empty for every type and no type has a value index.
C17_ClearEmptiesTheStore ==
  lastOp.op = "clear"
    => /\ Count(entities) = 0
       /\ \A id \in Ids : ~Exists(entities, id)
       /\ \A name \in Names : ~Exists(entities, Resolve(ByName(name)))
       /\ \A type \in Types : MatchingIds(componentEntities, <<type>>) = {}
       /\ \A type \in Types : NotIndexed(componentValueEntities, type)

\* C17 witness: a clear of a manager that held an entity, a name and an index
C17_Witness ==
  /\ lastOp.op = "clear"
  /\ lastOp.value.entities # {}
  /\ lastOp.value.names # {}
  /\ lastOp.value.indexed # {}

\* C18: a subscriber of a component type that subscribed before clear() is
\* handed the record of an entity of that type created after the clear.
\* (Stated as claimed; the code breaks it.)
C18_SubscriptionsSurviveClear ==
  [][(lastOp.op = "clear" /\ lastOp'.op \in Creates /\ Succeeded(lastOp'))
       => \A type \in lastOp.value.subscribed \cap SuppliedTypes(lastOp') :
            ComponentRecords(delivered', type) # <<>>]_vars

\* C19: after removeNamed(name) returned true the name maps to no id.
\* (Stated as claimed; the code breaks it.)
C19_RemoveNamedScrubsAlias ==
  (lastOp.op = "removeNamed" /\ lastOp.result = "true")
    => lastOp.arg \notin DOMAIN entityNameMapping

\* the name maps to an id whose entity has been removed
Dangling(name) ==
  /\ name \in DOMAIN entityNameMapping
  /\ ~Exists(entities, entityNameMapping[name])

\* the calls that address an entity by id or by name, or by name only
NameAddressed ==
  {"getNamed", "setComponent", "removeComponent", "hasComponent", "observeNamedEntity"}

\* C20: once the entity a name was given to has been removed, getNamed and the
\* name-addressed setComponent, removeComponent, hasComponent and
\* observeNamedEntity$ all fail.
C20_NameNeverResolvesToRemoved ==
  (/\ lastOp.op \in NameAddressed
   /\ lastOp.value.kind = "string"
   /\ Dangling(lastOp.value.v))
    => lastOp.result = "throw"

\* C20 witness: getNamed failed for a name whose entity was removed while
\* another entity is live
C20_Witness ==
  /\ lastOp.op = "getNamed"
  /\ lastOp.result = "throw"
  /\ Dangling(lastOp.value.v)
  /\ DOMAIN entities # {}

\* storage, id counter, names, indices and subscriptions are as before the call
ManagerUnchanged ==
  UNCHANGED <<currId, entities, entityNameMapping, componentEntities,
              componentValueEntities, entityRegistrations, componentRegistrations>>

\* C21: createNamedEntity with a name that already has a mapping fails and
\* changes nothing: no entity is created, no id is consumed, the alias is as
\* before and no notification is published.
C21_CreateNamedExistingFails ==
  [][(lastOp'.op = "createNamedEntity" /\ lastOp'.value.v \in DOMAIN entityNameMapping)
       => /\ lastOp'.result = "throw"
          /\ ManagerUnchanged
          /\ delivered' = <<>>]_vars

\* C21 witness: a refused createNamedEntity while the name's entity is live
\* and has a subscriber
C21_Witness ==
  /\ lastOp.op = "createNamedEntity"
  /\ lastOp.result = "throw"
  /\ Exists(entities, entityNameMapping[lastOp.value.v])
  /\ entityNameMapping[lastOp.value.v] \in entityRegistrations

\* C22: remove of an id that is not live and removeNamed of a name that is
\* unknown return false, change nothing and publish nothing.
C22_RemoveUnknownReturnsFalse ==
  [][/\ (lastOp'.op = "remove" /\ ~Exists(entities, lastOp'.value.v))
          => /\ lastOp'.result = "false"
             /\ ManagerUnchanged
             /\ delivered' = <<>>
     /\ (lastOp'.op = "removeNamed" /\ lastOp'.value.v \notin DOMAIN entityNameMapping)
          => /\ lastOp'.result = "false"
             /\ ManagerUnchanged
             /\ delivered' = <<>>]_vars

\* C22 witness: the second remove of an id that was issued and removed
C22_Witness ==
  /\ lastOp.op = "remove"
  /\ lastOp.result = "false"
  /\ ~issued.reset
  /\ lastOp.value.v \in issued.ids
  /\ DOMAIN entities # {}

\* C23: removeComponent(id, T) of a live entity that holds no T returns false,
\* changes nothing and publishes nothing.
C23_RemoveAbsentComponentReturnsFalse ==
  [][(/\ lastOp'.op = "removeComponent"
      /\ Exists(entities, Resolve(lastOp'.value))
      /\ lastOp'.arg \in Types
      /\ ~EntityHas(entities[Resolve(lastOp'.value)], lastOp'.arg))
       => /\ lastOp'.result = "false"
          /\ ManagerUnchanged
          /\ delivered' = <<>>]_vars

\* C23 witness: a refused removeComponent while the entity and the type both
\* have a subscriber
C23_Witness ==
  /\ lastOp.op = "removeComponent"
  /\ lastOp.result = "false"
  /\ lastOp.id \in entityRegistrations
  /\ lastOp.arg \in componentRegistrations

\* C24: setComponent, removeComponent and hasComponent addressed to an id or
\* name that resolves to no live entity fail and change nothing.
C24_UnknownEntityFails ==
  [][(/\ lastOp'.op \in {"setComponent", "removeComponent", "hasComponent"}
      /\ ~Exists(entities, Resolve(lastOp'.value)))
       => /\ lastOp'.result = "throw"
          /\ ManagerUnchanged
          /\ delivered' = <<>>]_vars

\* C24 witness: a setComponent by a name that is unknown while an entity is live
C24_Witness ==
  /\ lastOp.op = "setComponent"
  /\ lastOp.result = "throw"
  /\ lastOp.value.kind = "string"
  /\ lastOp.value.v \notin DOMAIN entityNameMapping
  /\ DOMAIN entities # {}

\* C25: hasIndex, countIndex and matchingIndex fail whenever the type of the
\* given component has no value index; when the type is indexed and no entity
\* has that value they return false, 0 and the empty array.  (Stated as
\* claimed; the code breaks the second half.)
C25_IndexQueries ==
  lastOp.op \in {"hasIndex", "countIndex", "matchingIndex"}
    => IF TypeOf(lastOp.arg) \notin DOMAIN componentValueEntities
       THEN lastOp.result = "throw"
       ELSE /\ lastOp.result # "throw"
            /\ WithDigest(entities, lastOp.arg) = {}
                 => /\ lastOp.op = "hasIndex" => lastOp.result = "false"
                    /\ lastOp.op = "countIndex" => lastOp.value.length = 0
                    /\ lastOp.op = "matchingIndex" => DOMAIN lastOp.value.entities = {}

\* the digests of the components of the type that live entities hold
DigestsOf(ents, type) ==
  {Hash(EntityComponent(ents[id], type)) : id \in HoldersOf(ents, type)}

\* C26: indexBy(T) returns totalComponents = the number of live entities
\* holding a T and uniqueComponentValues = the number of distinct digests
\* among those components (0 and 0 when no entity holds T), and T has a value
\* index afterwards.
C26_IndexByCounts ==
  lastOp.op = "indexBy"
    => /\ lastOp.result = "ok"
       /\ lastOp.value.totalComponents = Cardinality(HoldersOf(entities, lastOp.arg))
       /\ lastOp.value.uniqueComponentValues =
            Cardinality(DigestsOf(entities, lastOp.arg))
       /\ lastOp.arg \in DOMAIN componentValueEntities

\* C26 witness: two entities share one Position value, so two components are
\* scanned into one bucket
C26_Witness ==
  /\ lastOp.op = "indexBy"
  /\ lastOp.value.totalComponents = 2
  /\ lastOp.value.uniqueComponentValues = 1

\* the case of no holder: 0 and 0, and the index is configured
C26_EmptyCase ==
  /\ lastOp.op = "indexBy"
  /\ lastOp.value.totalComponents = 0
  /\ lastOp.value.uniqueComponentValues = 0
  /\ lastOp.arg \in DOMAIN componentValueEntities
  /\ DOMAIN entities # {}

\* the value index that holds exactly the digest-to-id entries of the live
\* entities holding the type
ExactIndex(ents, type) ==
  [h \in DigestsOf(ents, type) |->
     {id \in HoldersOf(ents, type) : Hash(EntityComponent(ents[id], type)) = h}]

\* C27: indexBy(T) is a full rebuild: whatever index T had before, afterwards
\* valueIndex[T] holds exactly the digest-to-id entries of the entities
\* currently holding T; and an indexBy(T) right after an indexBy(T) leaves
\* the indices as they are and returns the same counts.
C27_IndexByIsFullRebuild ==
  [][(lastOp'.op = "indexBy" /\ lastOp'.result = "ok")
       => /\ componentValueEntities'[lastOp'.arg] = ExactIndex(entities', lastOp'.arg)
          /\ (lastOp.op = "indexBy" /\ lastOp.result = "ok" /\ lastOp.arg = lastOp'.arg)
               => /\ componentValueEntities' = componentValueEntities
                  /\ lastOp'.value.totalComponents = lastOp.value.totalComponents
                  /\ lastOp'.value.uniqueComponentValues
                       = lastOp.value.uniqueComponentValues]_vars

\* C27 witness: the index the type had before held a bucket that the rebuilt
\* index does not have, while entities of the type are still indexed
C27_Witness ==
  /\ lastOp.op = "indexBy"
  /\ lastOp.result = "ok"
  /\ lastOp.value.previous # Undefined
  /\ \E h \in lastOp.value.previous.digests :
       h \notin DOMAIN componentValueEntities[lastOp.arg]
  /\ DOMAIN componentValueEntities[lastOp.arg] # {}

\* C28: each(callback, T1..Tn) invokes the callback exactly once for every id
\* of matchingIds(T1..Tn) and for no other entity, with the entity's current
\* snapshot followed by its components of T1..Tn in request order; it is
\* never invoked when nothing matches or a requested type has no holder.
C28_EachVisitsMatchingOnce ==
  lastOp.op = "each"
    => /\ lastOp.result = "ok"
       /\ LET calls == lastOp.value.calls
              types == lastOp.arg
              ids == MatchingIds(componentEntities, types)
          IN /\ \A id \in Ids :
                  Cardinality({k \in 1..Len(calls) : calls[k].e.id = id})
                    = IF id \in ids THEN 1 ELSE 0
             /\ \A k \in 1..Len(calls) :
                  /\ calls[k].e = Lookup(entities, calls[k].e.id)
                  /\ Len(calls[k].instances) = Len(types)
                  /\ \A t \in 1..Len(types) :
                       /\ EntityHas(calls[k].e, types[t])
                       /\ calls[k].instances[t] = EntityComponent(calls[k].e, types[t])
             /\ (types = <<>> \/ \E t \in 1..Len(types) : HoldersOf(entities, types[t]) = {})
                  => calls = <<>>

\* C28 witness: two entities are visited with two components each, requested
\* in the opposite of the order in which the first entity stores them
C28_Witness ==
  /\ lastOp.op = "each"
  /\ Len(lastOp.value.calls) = 2
  /\ Len(lastOp.arg) = 2
  /\ lastOp.arg[1] # lastOp.arg[2]
  /\ TypeOf(AllComponents(lastOp.value.calls[1].e)[1]) = lastOp.arg[2]

\* C30: every stored entity snapshot holds at most one component per type.
C30_OneComponentPerType ==
  \A id \in DOMAIN entities :
    \A i, j \in 1..Len(entities[id].components_) :
      TypeOf(entities[id].components_[i]) = TypeOf(entities[id].components_[j]) => i = j

\* C30 witness: an entity created with two different components of one type
\* holds one component
C30_Witness ==
  /\ lastOp.op = "createEntity"
  /\ lastOp.result = "ok"
  /\ Len(lastOp.arg) = 2
  /\ TypeOf(lastOp.arg[1]) = TypeOf(lastOp.arg[2])
  /\ lastOp.arg[1] # lastOp.arg[2]
  /\ Len(entities[lastOp.id].components_) = 1

\* the other case: a setComponent on a held type leaves one component of it
C30_ReplaceCase ==
  /\ lastOp.op = "setComponent"
  /\ lastOp.result = "replaced"
  /\ Len(entities[lastOp.id].components_) = 2

C31_SubscribingRequiresLiveTarget ==
  [][/\ lastOp'.op \in {"observeEntity", "observeEntityComponent", "observeNamedEntity"}
          => /\ lastOp'.result \in {"ok", "throw"}
             /\ lastOp'.result = "ok" => Exists(entities, lastOp'.id)
             /\ lastOp'.result = "throw" => ManagerUnchanged /\ watched' = watched
     /\ lastOp'.op = "observeNamedEntity"
          => (lastOp'.result = "ok"
                <=> Exists(entities, Resolve(lastOp'.value)))
     /\ lastOp'.op = "observeEntityComponent"
          => /\ lastOp'.result = "ok" <=> Exists(entities, lastOp'.value.v)
             /\ lastOp'.result = "ok"
                  => /\ lastOp'.id = lastOp'.value.v
                     /\ <<lastOp'.id, lastOp'.arg>> \in watched'
                     /\ lastOp'.arg \in componentRegistrations'
     /\ lastOp'.op = "observeComponentType"
          => /\ lastOp'.result = "ok"
             /\ lastOp'.arg \in componentRegistrations']_vars

\* C31 witness: a subscription to a type the live entity does not hold, after
\* a subscription by a name whose entity was removed was refused
C31_Witness ==
  /\ lastOp.op = "observeEntityComponent"
  /\ lastOp.result = "ok"
  /\ ~EntityHas(entities[lastOp.id], lastOp.arg)
  /\ \E name \in DOMAIN entityNameMapping : ~Exists(entities, entityNameMapping[name])

\* the call changed the component of the type on the entity: a setComponent
\* of the type, a removeComponent of it, or a remove of the entity holding it
ChangesComponent(ents, op, id, type) ==
  /\ op.id = id
  /\ \/ op.op = "setComponent" /\ op.result \in {"added", "replaced"}
          /\ TypeOf(op.arg) = type
     \/ op.op = "removeComponent" /\ op.result = "true" /\ op.arg = type
     \/ op.op = "remove" /\ op.result = "true" /\ EntityHas(ents[id], type)

\* C32: a subscriber of observeEntityComponent$(id, T) is handed exactly one
\* record for every add, replace and removal of T on that entity (the new
\* component, or none for a removal), and nothing for any other call: no
\* record of another entity or of another type.
C32_EntityComponentStream ==
  [][\A w \in watched :
       LET got == EntityComponentStream(delivered', w[1], w[2])
       IN IF ChangesComponent(entities, lastOp', w[1], w[2])
          THEN /\ Len(got) = 1
               /\ got[1].id = w[1]
               /\ IF lastOp'.op = "setComponent"
                  THEN got[1].c = lastOp'.arg /\ got[1].e = entities'[w[1]]
                  ELSE got[1].c = Undefined
          ELSE got = <<>>]_vars

\* C32 witness: a subscriber of Position on one entity while another entity
\* receives a Position, and a subscriber of Physical on the same entity exists
C32_Witness ==
  /\ \E w \in watched : /\ w[2] = "Position"
                        /\ w[1] # lastOp.id
                        /\ <<lastOp.id, "Physical">> \in watched
  /\ lastOp.op = "setComponent"
  /\ lastOp.result = "replaced"
  /\ TypeOf(lastOp.arg) = "Position"
  /\ delivered # <<>>

\* the values stored under the digest of the key, by the history
TrackedUnder(pairs, key) == {p[2] : p \in {q \in pairs : q[1] = Hash(key)}}

C34_TableIsMapOfSets ==
  [][/\ \A key \in PositionValues :
          /\ HashTableGet(table', key) = TrackedUnder(tracked', key)
          /\ HashTableCount(table', key) = Cardinality(TrackedUnder(tracked', key))
          /\ \A value \in TableValues :
               HashTableHasValue(table', key, value)
                 <=> value \in TrackedUnder(tracked', key)
     /\ HashTableCountKeys(table') = Cardinality({p[1] : p \in tracked'})
     /\ (lastOp'.op = "HashTable.add"
           /\ <<Hash(lastOp'.arg), lastOp'.id>> \in tracked) => table' = table
     /\ lastOp'.op = "HashTable.remove"
          => /\ lastOp'.result = "false" <=> TrackedUnder(tracked, lastOp'.arg) = {}
             /\ lastOp'.result = "false" => table' = table]_vars

\* C34 witness: a second value was added to one bucket while another bucket
\* exists
C34_Witness ==
  /\ lastOp.op = "HashTable.add"
  /\ HashTableCount(table, lastOp.arg) = 2
  /\ HashTableCountKeys(table) = 2

\* C35: Entity.components(T1..Tn) returns the instances of T1..Tn in request
\* order when the snapshot holds every requested type and throws when one is
\* absent; Entity.has(list) is true only if every listed type is present.
C35_ComponentsAllOrNothing ==
  /\ lastOp.op = "Entity.components"
       => LET e == entities[lastOp.id]
              types == lastOp.arg
              instances == lastOp.value.instances
          IN IF \A t \in 1..Len(types) : EntityHas(e, types[t])
             THEN /\ lastOp.result = "ok"
                  /\ Len(instances) = Len(types)
                  /\ \A t \in 1..Len(types) :
                       /\ TypeOf(instances[t]) = types[t]
                       /\ \E i \in 1..Len(e.components_) : e.components_[i] = instances[t]
             ELSE lastOp.result = "throw"
  /\ lastOp.op = "Entity.has"
       => (lastOp.result = "true"
             <=> \A t \in 1..Len(lastOp.arg) :
                   EntityHas(entities[lastOp.id], lastOp.arg[t]))

\* C35 witness: two components are returned in the order of the request,
\* which is the opposite of the order the snapshot stores them in
C35_Witness ==
  /\ lastOp.op = "Entity.components"
  /\ lastOp.result = "ok"
  /\ Len(lastOp.arg) = 2
  /\ lastOp.arg[1] # lastOp.arg[2]
  /\ TypeOf(entities[lastOp.id].components_[1]) = lastOp.arg[2]

\* the failing case: one of two requested types is absent
C35_AbsentCase ==
  /\ lastOp.op = "Entity.components"
  /\ lastOp.result = "throw"
  /\ Len(lastOp.arg) = 2
  /\ EntityHas(entities[lastOp.id], lastOp.arg[1])

\* the read-only operations of the manager
QueryOps == {"get", "getNamed", "exists", "count", "hasComponent", "matching",
             "matchingIds", "each", "hasIndex", "countIndex", "matchingIndex",
             "toData"}

\* C36: get, getNamed, exists, count, hasComponent, matching, matchingIds,
\* each, hasIndex, countIndex, matchingIndex and toData leave storage, the id
\* counter, the name index, the presence index, the value indices and the
\* subscriptions as they were and publish nothing, whether they succeed or fail.
C36_QueriesAreReadOnly ==
  [][lastOp'.op \in QueryOps => ManagerUnchanged /\ delivered' = <<>>]_vars

\* C36 witness: a query has failed on a manager that holds an entity, a name
\* and a subscriber, for a type that has no value index
C36_Witness ==
  /\ lastOp.op = "matchingIndex"
  /\ lastOp.result = "throw"
  /\ DOMAIN entities # {}
  /\ DOMAIN entityNameMapping # {}
  /\ componentRegistrations # {}

\* a query has succeeded with a non-empty answer while a subscriber listens
C36_AnsweredCase ==
  /\ lastOp.op = "each"
  /\ lastOp.result = "ok"
  /\ lastOp.value.calls # <<>>
  /\ componentRegistrations # {}
  /\ DOMAIN componentValueEntities # {}

\* the presence index and the value indices of a view name only live
\* entities that hold the indexed type, resp. the indexed value
OnlyLiveHolders(v) ==
  /\ \A type \in DOMAIN v.componentEntities :
       v.componentEntities[type] \subseteq HoldersOf(v.entities, type)
  /\ \A type \in DOMAIN v.componentValueEntities :
       \A c \in {k \in Components : TypeOf(k) = type} :
         HashTableGet(v.componentValueEntities[type], c) \subseteq WithDigest(v.entities, c)

\* C37: when a subscriber calls remove(id) from its callback while the create
\* of id is still installing components, then once the create returns the
\* presence index and the value indices contain only live entities that hold
\* the indexed type and value.  (Stated as claimed; the code breaks it.)
C37_ReentrantRemoveKeepsIndices ==
  [][(/\ lastOp'.op = "createEntity"
      /\ "removedBy" \in DOMAIN lastOp'.value
      /\ OnlyLiveHolders(View(Store)))
       => OnlyLiveHolders([entities |-> entities',
                           componentEntities |-> componentEntities',
                           componentValueEntities |-> componentValueEntities'])]_vars

\* the digests of the value index of `type` whose bucket contains id
BucketsHolding(valueEntities, type, id) ==
  {d \in DOMAIN valueEntities[type] : id \in valueEntities[type][d]}

\* C38: after a create that lists two components of the same indexed type the
\* value index holds the new entity only under the digest of the component its
\* snapshot retains; after the removal of an entity no bucket of a value index
\* contains its id, and matchingIndex never yields an absent entity.
\* (Stated as claimed; the code breaks it.)
C38_DuplicateTypeIndexedOnce ==
  /\ (lastOp.op = "createEntity" /\ lastOp.result = "ok")
       => \A i, j \in 1..Len(lastOp.arg) :
            LET type == TypeOf(lastOp.arg[i])
            IN (i < j /\ TypeOf(lastOp.arg[j]) = type
                  /\ type \in DOMAIN componentValueEntities)
                 => BucketsHolding(componentValueEntities, type, lastOp.id)
                      = {Hash(EntityComponent(entities[lastOp.id], type))}
  /\ (lastOp.op = "remove" /\ lastOp.result = "true")
       => \A type \in DOMAIN componentValueEntities :
            BucketsHolding(componentValueEntities, type, lastOp.id) = {}
  /\ (lastOp.op = "matchingIndex" /\ lastOp.result = "ok")
       => \A id \in DOMAIN lastOp.value.entities :
            lastOp.value.entities[id] # Undefined

\* id is listed for `type` in the presence index, resp. under digest d of the
\* value index of `type`
InPresence(presence, type, id) == type \in DOMAIN presence /\ id \in presence[type]
InBucket(valueEntities, type, d, id) ==
  /\ type \in DOMAIN valueEntities
  /\ d \in DOMAIN valueEntities[type]
  /\ id \in valueEntities[type][d]

Digests == {Hash(c) : c \in PositionValues}

\* the index membership of id for `type` is the same before and after the step
SameMembership(type, id) ==
  /\ InPresence(componentEntities', type, id) <=> InPresence(componentEntities, type, id)
  /\ \A d \in Digests :
       InBucket(componentValueEntities', type, d, id)
         <=> InBucket(componentValueEntities, type, d, id)

\* C39: a successful setComponent(id, c) leaves the entity holding c for
\* type(c), a successful removeComponent(id, T) leaves it without T; every
\* other component of the entity is as before, the entity's index membership
\* for the other types, every other entity's snapshot and index membership,
\* the id counter and the name index are unchanged.
C39_OnlyAddressedTypeChanges ==
  [][((lastOp'.op = "setComponent" /\ lastOp'.result \in {"added", "replaced"})
        \/ (lastOp'.op = "removeComponent" /\ lastOp'.result = "true"))
       => LET id == lastOp'.id
              set == lastOp'.op = "setComponent"
              type == IF set THEN TypeOf(lastOp'.arg) ELSE lastOp'.arg
          IN /\ DOMAIN entities' = DOMAIN entities
             /\ IF set
                THEN /\ EntityHas(entities'[id], type)
                     /\ EntityComponent(entities'[id], type) = lastOp'.arg
                ELSE ~EntityHas(entities'[id], type)
             /\ \A other \in Types \ {type} :
                  /\ EntityHas(entities'[id], other) <=> EntityHas(entities[id], other)
                  /\ EntityHas(entities[id], other)
                       => EntityComponent(entities'[id], other)
                            = EntityComponent(entities[id], other)
                  /\ SameMembership(other, id)
             /\ \A e \in DOMAIN entities \ {id} :
                  /\ entities'[e] = entities[e]
                  /\ \A t \in Types : SameMembership(t, e)
             /\ currId' = currId
             /\ entityNameMapping' = entityNameMapping]_vars

\* C39 witness: a component was replaced, through a name, on an entity that
\* holds a second component, while another entity is stored and indexed
C39_Witness ==
  /\ lastOp.op = "setComponent"
  /\ lastOp.result = "replaced"
  /\ lastOp.value.kind = "string"
  /\ Len(entities[lastOp.id].components_) = 2
  /\ \E e \in DOMAIN entities \ {lastOp.id} :
       \E d \in Digests : InBucket(componentValueEntities, "Position", d, e)

\* a component was removed from an entity that keeps another one
C39_RemoveCase ==
  /\ lastOp.op = "removeComponent"
  /\ lastOp.result = "true"
  /\ Len(entities[lastOp.id].components_) = 1
  /\ DOMAIN entities # {lastOp.id}

\* the ids the callback of the recorded each was called for
Visited(op) == {op.value.calls[i] : i \in 1..Len(op.value.calls)}

\* the callback of the recorded each has run, and it removed `id`, or one of
\* the requested components of `id`, before each reached that id
RemovedAhead(op, id) ==
  /\ op.value.ids # {}
  /\ id \in op.value.ids
  /\ id # Min(op.value.ids)
  /\ op.value.callback.kind \in {"remove", "removeComponent"}
  /\ op.value.callback.id = id
  /\ op.value.callback.kind = "removeComponent"
       => \E t \in 1..Len(op.arg) : op.arg[t] = op.value.callback.type

\* C40: when the callback of each removes a matching entity that was not
\* visited yet, or one of its requested components, each completes without
\* error and does not call the callback for that entity; an entity the
\* callback creates is not visited in the same call.
\* (Stated as claimed; the code breaks it.)
C40_EachToleratesCallbackMutation ==
  (lastOp.op = "each" /\ "callback" \in DOMAIN lastOp.value)
    => /\ \A id \in Ids :
            RemovedAhead(lastOp, id)
              => /\ lastOp.result = "ok"
                 /\ Visited(lastOp) = lastOp.value.ids \ {id}
       /\ (lastOp.value.ids # {} /\ lastOp.value.callback.kind = "createEntity")
            => /\ lastOp.result = "ok"
               /\ Visited(lastOp) = lastOp.value.ids

\* the part of C40 the code keeps: an entity created by the callback is not
\* visited in the same call
C40_CreatedNotVisited ==
  (lastOp.op = "each" /\ "callback" \in DOMAIN lastOp.value
     /\ lastOp.value.ids # {} /\ lastOp.value.callback.kind = "createEntity")
    => /\ lastOp.result = "ok"
       /\ Visited(lastOp) = lastOp.value.ids

====
